---- MODULE Spec2Model ----
(***************************************************************************)
(* Model of the Drupal LSP server's entity index (YamlServiceParser,       *)
(* YamlRouteParser, YamlLinkParser over CacheManager), its live            *)
(* synchronisation with file events (server.ts), the tier classification,  *)
(* the completion sort keys and the reference diagnostics.                 *)
(*                                                                         *)
(* Strings of the program are sequences of one-character strings, so that  *)
(* includes / startsWith / endsWith / replace / padStart and the code-unit *)
(* comparison of sort keys are computed as JavaScript computes them.       *)
(***************************************************************************)
EXTENDS Integers, Sequences, FiniteSets, TLC

VARIABLES
    initialized,   \* onInitialize has created the parsers and begun the scans
    disk,          \* file path -> content on disk, or Absent
    docs,          \* file path -> text of the open document, or Closed
    cache,         \* CacheManager.cache: key -> [value, timestamp, ttl]
    now,           \* Date.now()
    scannedFiles,  \* per parser, its scannedFiles set in insertion order
    handlers,      \* the calls suspended at an await: handlers, scans
    lastOp,        \* history: the last index operation on each (kind, file)
    expect,        \* history: the entities the last operation read
    raced,         \* history: the last reparse overlapped an earlier one
    budget,        \* events, file-system changes and glob failures still to come
    pc,            \* position of the function harness: "ready" | "done"
    input,         \* arguments of the function under evaluation
    output,        \* its result
    phpcs          \* the PhpCsProvider, the processes it started, its requests

vars == <<initialized, disk, docs, cache, now, scannedFiles, handlers,
          lastOp, expect, raced, budget, pc, input, output, phpcs>>

None == "none"

(***************************************************************************)
(* JavaScript string primitives                                            *)
(***************************************************************************)

\* UTF-16 code units of the characters the model uses, in ascending order.
Chars ==
    <<" ", "\"", "$", "'", "(", ")", "*", ",", "-", ".", "/",
      "0", "1", "2", "3", "4", "5", "6", "7", "8", "9", ":", ";", "=", ">", "@",
      "A", "B", "C", "D", "E", "F", "G", "H", "I", "J", "K", "L", "M",
      "N", "O", "P", "Q", "R", "S", "T", "U", "V", "W", "X", "Y", "Z",
      "[", "\\", "]", "_",
      "a", "b", "c", "d", "e", "f", "g", "h", "i", "j", "k", "l", "m",
      "n", "o", "p", "q", "r", "s", "t", "u", "v", "w", "x", "y", "z">>

\* Rank of a character in code-unit order.
Ord(c) == CHOOSE i \in 1..Len(Chars) : Chars[i] = c

UpperA == Ord("A")
LowerA == Ord("a")

\* String.prototype.toLowerCase on one character.
LowerChar(c) ==
    LET i == Ord(c)
    IN  IF i >= UpperA /\ i < UpperA + 26 THEN Chars[i - UpperA + LowerA] ELSE c

\* String.prototype.toLowerCase
LowerTable == [c \in {Chars[i] : i \in 1..Len(Chars)} |-> LowerChar(c)]
ToLowerCase(s) == [i \in 1..Len(s) |-> LowerTable[s[i]]]

\* sub occurs in s at (1-based) position i
OccursAt(s, sub, i) ==
    /\ i >= 1
    /\ i + Len(sub) - 1 <= Len(s)
    /\ \A j \in 1..Len(sub) : s[i + j - 1] = sub[j]

\* String.prototype.startsWith
StartsWith(s, prefix) == OccursAt(s, prefix, 1)

\* String.prototype.endsWith
EndsWith(s, suffix) == OccursAt(s, suffix, Len(s) - Len(suffix) + 1)

\* String.prototype.includes
Includes(s, sub) == \E i \in 1..(Len(s) + 1) : OccursAt(s, sub, i)

\* String.prototype.indexOf, 1-based; 0 when sub does not occur
IndexOf(s, sub) ==
    IF Includes(s, sub)
    THEN CHOOSE i \in 1..(Len(s) + 1) :
            /\ OccursAt(s, sub, i)
            /\ \A j \in 1..(i - 1) : ~OccursAt(s, sub, j)
    ELSE 0

\* String.prototype.replace(sub, ''): removes the first occurrence of sub
ReplaceFirstWithEmpty(s, sub) ==
    LET i == IndexOf(s, sub)
    IN  IF i = 0 THEN s
        ELSE SubSeq(s, 1, i - 1) \o SubSeq(s, i + Len(sub), Len(s))

(***************************************************************************)
(* Tier classification                                                     *)
(***************************************************************************)

CORE_MARKER == <<"/", "c", "o", "r", "e", "/">>
CUSTOM_MARKER == <<"/", "m", "o", "d", "u", "l", "e", "s", "/", "c", "u", "s", "t", "o", "m", "/">>
CONTRIB_MARKER == <<"/", "m", "o", "d", "u", "l", "e", "s", "/", "c", "o", "n", "t", "r", "i", "b", "/">>

\* YamlServiceParser / YamlRouteParser / YamlLinkParser .determineSourceType
determineSourceType(filePath, drupalRoot) ==
    LET relativePath == ReplaceFirstWithEmpty(filePath, drupalRoot)
    IN  IF Includes(relativePath, CORE_MARKER) THEN "core"
        ELSE IF Includes(relativePath, CUSTOM_MARKER) THEN "custom"
        ELSE "contrib"

\* server.ts isCustomCode
isCustomCode(filePath) ==
    /\ ~Includes(filePath, CORE_MARKER)
    /\ ~Includes(filePath, CONTRIB_MARKER)

(***************************************************************************)
(* Completion sort keys                                                    *)
(***************************************************************************)

Digits == <<"0", "1", "2", "3", "4", "5", "6", "7", "8", "9">>

\* Number.prototype.toString / String(n) for a non-negative integer
RECURSIVE NumberToString(_)
NumberToString(n) ==
    IF n < 10 THEN <<Digits[n + 1]>>
    ELSE NumberToString(n \div 10) \o <<Digits[(n % 10) + 1]>>

\* String.prototype.padStart(width, ch)
PadStart(s, width, ch) ==
    IF Len(s) >= width THEN s
    ELSE [i \in 1..(width - Len(s)) |-> ch] \o s

\* First position at which a and b differ; 0 when one is a prefix of the
\* other.
FirstDiff(a, b) ==
    LET n == IF Len(a) < Len(b) THEN Len(a) ELSE Len(b)
    IN  IF \A i \in 1..n : a[i] = b[i] THEN 0
        ELSE CHOOSE i \in 1..n : a[i] # b[i] /\ \A j \in 1..(i - 1) : a[j] = b[j]

\* a < b in JavaScript's string comparison (by UTF-16 code units)
StringLess(a, b) ==
    LET d == FirstDiff(a, b)
    IN  IF d = 0 THEN Len(a) < Len(b) ELSE Ord(a[d]) < Ord(b[d])

\* BaseServiceProvider.getSortPrefix
getSortPrefix(sourceType) ==
    CASE sourceType = "custom" -> <<"0", "_">>
      [] sourceType = "contrib" -> <<"1", "_">>
      [] sourceType = "core" -> <<"2", "_">>
      [] OTHER -> <<"3", "_">>

\* The sort prefix allRoutesCompletions and getParentLinkCompletions compute
\* inline: custom '0', contrib '1', anything else '2'.
routeSortPrefix(sourceType) ==
    IF sourceType = "custom" THEN <<"0">>
    ELSE IF sourceType = "contrib" THEN <<"1">>
    ELSE <<"2">>

MATCH_QUALITY_WIDTH == 3
ROUTE_REMAINING_WIDTH == 5

\* A variant of calculateMatchScore that leaves the name out of the key.
calculateMatchScoreNoName(serviceName, typedText, sortPrefix) ==
    IF typedText = <<>> THEN sortPrefix
    ELSE IF StartsWith(serviceName, typedText)
    THEN <<"0", "_">>
         \o PadStart(NumberToString(Len(serviceName) - Len(typedText)), MATCH_QUALITY_WIDTH, "0")
         \o <<"_">> \o sortPrefix
    ELSE IF Includes(serviceName, typedText)
    THEN <<"1", "_">> \o sortPrefix
    ELSE <<"2", "_">> \o sortPrefix

\* BaseCompletionProvider.calculateMatchScore
calculateMatchScore(serviceName, typedText, sortPrefix) ==
    IF typedText = <<>> THEN sortPrefix \o serviceName
    ELSE IF StartsWith(serviceName, typedText)
    THEN <<"0", "_">>
         \o PadStart(NumberToString(Len(serviceName) - Len(typedText)), MATCH_QUALITY_WIDTH, "0")
         \o <<"_">> \o sortPrefix \o serviceName
    ELSE IF Includes(serviceName, typedText)
    THEN <<"1", "_">> \o sortPrefix \o serviceName
    ELSE <<"2", "_">> \o sortPrefix \o serviceName

\* BaseCompletionProvider.calculateRouteMatchScore
calculateRouteMatchScore(routeName, typed, sortPrefix) ==
    LET lowerRoute == ToLowerCase(routeName)
        lowerTyped == ToLowerCase(typed)
    IN  IF typed = <<>> THEN sortPrefix \o <<"_">> \o routeName
        ELSE IF lowerRoute = lowerTyped
        THEN sortPrefix \o <<"_", "0", "_">> \o routeName
        ELSE IF StartsWith(lowerRoute, lowerTyped)
        THEN sortPrefix \o <<"_", "1", "_">>
             \o PadStart(NumberToString(Len(routeName) - Len(typed)), ROUTE_REMAINING_WIDTH, "0")
             \o <<"_">> \o routeName
        ELSE sortPrefix \o <<"_", "2", "_">> \o routeName

\* YamlCompletionProvider.calculateLinkMatchScore
calculateLinkMatchScore(linkName, typed, sortPrefix) ==
    LET lowerLink == ToLowerCase(linkName)
        lowerTyped == ToLowerCase(typed)
    IN  IF typed = <<>> THEN sortPrefix \o <<"_">> \o linkName
        ELSE IF lowerLink = lowerTyped
        THEN sortPrefix \o <<"_", "0", "_">> \o linkName
        ELSE IF StartsWith(lowerLink, lowerTyped)
        THEN sortPrefix \o <<"_", "1", "_">>
             \o PadStart(NumberToString(Len(linkName) - Len(typed)), ROUTE_REMAINING_WIDTH, "0")
             \o <<"_">> \o linkName
        ELSE sortPrefix \o <<"_", "2", "_">> \o linkName

\* The filter of allRoutesCompletions and getParentLinkCompletions: only the
\* candidates whose name contains the typed text, ignoring case, are offered.
routeFilter(name, typedText) ==
    Includes(ToLowerCase(name), ToLowerCase(typedText))

\* sortText of one completion item, per kind of candidate:
\* buildCompletionItems (services), allRoutesCompletions (routes),
\* getParentLinkCompletions (links).
SortText(kind, cand, typedText) ==
    CASE kind = "service" ->
            calculateMatchScore(cand.name, typedText, getSortPrefix(cand.sourceType))
      [] kind = "route" ->
            calculateRouteMatchScore(cand.name, typedText, routeSortPrefix(cand.sourceType))
      [] kind = "link" ->
            calculateLinkMatchScore(cand.name, typedText, routeSortPrefix(cand.sourceType))

\* The candidates a completion request offers, in index iteration order.
Offered(kind, cands, typedText) ==
    IF kind = "service" THEN cands
    ELSE SelectSeq(cands, LAMBDA c : routeFilter(c.name, typedText))

\* The items of a completion list: the offered candidates in index iteration
\* order, each with its sortText.  The code returns them in that order;
\* ordering them by sortText is left to the client.
CompletionItems(kind, cands, typedText) ==
    LET offered == Offered(kind, cands, typedText)
    IN  [i \in 1..Len(offered) |->
            [cand |-> offered[i], sortText |-> SortText(kind, offered[i], typedText)]]

\* The client inserts item x into the sequence sorted by sortText, after the
\* items whose key is not greater (a stable insertion).
RECURSIVE InsertByKey(_, _)
InsertByKey(sorted, x) ==
    IF sorted = <<>> THEN <<x>>
    ELSE IF StringLess(x.sortText, Head(sorted).sortText)
    THEN <<x>> \o sorted
    ELSE <<Head(sorted)>> \o InsertByKey(Tail(sorted), x)

\* The items as a client shows them: ordered by sortText (stable).
RECURSIVE OrderBySortText(_)
OrderBySortText(items) ==
    IF items = <<>> THEN <<>>
    ELSE InsertByKey(OrderBySortText(SubSeq(items, 1, Len(items) - 1)), items[Len(items)])

(***************************************************************************)
(* CacheManager                                                            *)
(***************************************************************************)

\* A TTL is a number of milliseconds or Infinity.
Infinity == [finite |-> FALSE, ms |-> 0]
Millis(n) == [finite |-> TRUE, ms |-> n]
Undefined == "undefined"

\* A variant of the expiry test that expires an entry when its age reaches
\* its TTL.
ExpiredAtTtl(entry, t) == entry.ttl.finite /\ t - entry.timestamp >= entry.ttl.ms

\* A variant of the expiry test that takes every TTL for a finite one.
ExpiredAsFinite(entry, t) == t - entry.timestamp > entry.ttl.ms

\* The test of CacheManager.get and cleanup: Date.now() - timestamp > ttl
Expired(entry, t) == entry.ttl.finite /\ t - entry.timestamp > entry.ttl.ms

\* CacheManager.get returns a value (not undefined): the key is present and
\* its entry is not older than its own TTL.
CacheLive(c, key, t) == key \in DOMAIN c /\ ~Expired(c[key], t)

\* CacheManager.get: the value under key at time t, or undefined
CacheGet(c, key, t) ==
    IF CacheLive(c, key, t) THEN c[key].value ELSE Undefined

\* The map after CacheManager.get: an expired entry is removed by the read.
CacheAfterGet(c, key, t) ==
    IF key \in DOMAIN c /\ Expired(c[key], t)
    THEN [k \in DOMAIN c \ {key} |-> c[k]]
    ELSE c

\* CacheManager.set with an explicit TTL
CacheSet(c, key, value, ttl, t) ==
    [k \in DOMAIN c \cup {key} |->
        IF k = key THEN [value |-> value, timestamp |-> t, ttl |-> ttl] ELSE c[k]]

\* CacheManager.delete
CacheDelete(c, key) == [k \in DOMAIN c \ {key} |-> c[k]]

\* CacheManager.matchesPattern
matchesPattern(key, pattern) ==
    IF key = pattern THEN TRUE
    ELSE IF EndsWith(pattern, <<"*">>)
    THEN StartsWith(key, SubSeq(pattern, 1, Len(pattern) - 1))
    ELSE IF StartsWith(pattern, <<"*">>) /\ EndsWith(pattern, <<"*">>)
    THEN Includes(key, SubSeq(pattern, 2, Len(pattern) - 1))
    ELSE FALSE

\* CacheManager.clearPattern: the map without the matching keys
clearPattern(c, pattern) ==
    [k \in {x \in DOMAIN c : ~matchesPattern(x, pattern)} |-> c[k]]

(***************************************************************************)
(* Definition files and their parsed form                                  *)
(***************************************************************************)

SERVICES_SUFFIX == <<".", "s", "e", "r", "v", "i", "c", "e", "s", ".", "y", "m", "l">>
ROUTING_SUFFIX == <<".", "r", "o", "u", "t", "i", "n", "g", ".", "y", "m", "l">>
LINKS_INFIX == <<".", "l", "i", "n", "k", "s", ".">>
PHP_SUFFIX == <<".", "p", "h", "p">>

SERVICES_CACHE_PREFIX == <<"y", "a", "m", "l", ":", "s", "e", "r", "v", "i", "c", "e", "s", ":">>
ROUTES_CACHE_PREFIX == <<"y", "a", "m", "l", ":", "r", "o", "u", "t", "e", "s", ":">>
LINKS_CACHE_PREFIX == <<"y", "a", "m", "l", ":", "l", "i", "n", "k", "s", ":">>

\* The three parsers, in the order server.ts consults them.
Kinds == <<"service", "route", "link">>
KindSet == {"service", "route", "link"}

\* A file's content as the YAML library presents it: the top-level pairs of
\* the document (state "scalar" when the document is not a mapping), each pair
\* with its key, the line of the key and its value node.  NoString stands for
\* an undefined string-valued field.
NoString == <<>>
YamlDoc(pairs) == [state |-> "map", top |-> pairs, errors |-> FALSE]
ScalarDoc == [state |-> "scalar", top |-> <<>>, errors |-> FALSE]
MapVal(entries, detail) == [type |-> "map", entries |-> entries, detail |-> detail]
ScalarVal(text) == [type |-> "scalar", entries |-> <<>>, detail |-> text]
NullVal == [type |-> "null", entries |-> <<>>, detail |-> NoString]
YamlPair(key, line, val) == [key |-> key, line |-> line, val |-> val]

\* The file does not exist: fs.readFileSync throws.
Absent == [state |-> "absent", top |-> <<>>, errors |-> FALSE]

\* The file is there and the body of parseFile throws on it: fs.readFileSync
\* fails, composing a scalar throws, or toJSON() of a definition meets an
\* alias without anchor.
Malformed == [state |-> "throws", top |-> <<>>, errors |-> FALSE]

\* YAML.parseDocument on a text with a syntax error: it does not throw, it
\* returns the document it could compose with the errors in Document.errors,
\* which parseFile does not read.
BrokenDoc(pairs) == [state |-> "map", top |-> pairs, errors |-> TRUE]

\* Document.get(key) is not undefined: a top-level pair has that key.
DocHas(content, key) ==
    content.state = "map" /\ \E i \in 1..Len(content.top) : content.top[i].key = key

\* Document.get('services'): the value node of the first top-level pair with
\* that key, or undefined.
DocGet(content, key) ==
    IF DocHas(content, key)
    THEN SelectSeq(content.top, LAMBDA p : p.key = key)[1].val
    ELSE Undefined

\* The entity pushed for one pair (services.push / routes.push / links.push).
Entity(pair, detail, filePath, sourceType) ==
    [name |-> pair.key,
     detail |-> detail,
     sourceFile |-> filePath,
     sourceType |-> sourceType,
     sourceLine |-> NumberToString(pair.line)]

\* The loop of YamlServiceParser.parseFile over the pairs of the services node:
\* a pair without name is skipped, a null definition gives no defObj, a scalar
\* definition gives an entity without class.
RECURSIVE ServiceEntities(_, _, _)
ServiceEntities(pairs, filePath, sourceType) ==
    IF pairs = <<>> THEN <<>>
    ELSE LET pair == Head(pairs)
             rest == ServiceEntities(Tail(pairs), filePath, sourceType)
         IN  IF pair.key = <<>> THEN rest
             ELSE IF pair.val.type = "map"
             THEN <<Entity(pair, pair.val.detail, filePath, sourceType)>> \o rest
             ELSE IF pair.val.type = "scalar" /\ pair.val.detail # <<>>
             THEN <<Entity(pair, NoString, filePath, sourceType)>> \o rest
             ELSE rest

\* The loop of YamlRouteParser.parseFile / YamlLinkParser.parseFile over the
\* top-level pairs: only object definitions give an entity.
RECURSIVE FlatEntities(_, _, _)
FlatEntities(pairs, filePath, sourceType) ==
    IF pairs = <<>> THEN <<>>
    ELSE LET pair == Head(pairs)
             rest == FlatEntities(Tail(pairs), filePath, sourceType)
         IN  IF pair.key = <<>> THEN rest
             ELSE IF pair.val.type = "map"
             THEN <<Entity(pair, pair.val.detail, filePath, sourceType)>> \o rest
             ELSE rest

SERVICES_KEY == <<"s", "e", "r", "v", "i", "c", "e", "s">>

\* What parseFile computes from the content read: stored says whether
\* cache.set is reached (it is not when reading throws or on the early
\* return), entities is the list it stores.
ParseResult(kind, content, filePath, drupalRoot) ==
    IF content.state \in {"absent", "throws"} THEN [stored |-> FALSE, entities |-> <<>>]
    ELSE IF kind = "service"
    THEN LET servicesNode == DocGet(content, SERVICES_KEY)
         IN  IF ~DocHas(content, SERVICES_KEY) THEN [stored |-> FALSE, entities |-> <<>>]
             ELSE IF servicesNode.type # "map" THEN [stored |-> FALSE, entities |-> <<>>]
             ELSE [stored |-> TRUE,
                   entities |-> ServiceEntities(servicesNode.entries, filePath,
                                    determineSourceType(filePath, drupalRoot))]
    ELSE IF content.state # "map" THEN [stored |-> FALSE, entities |-> <<>>]
         ELSE [stored |-> TRUE,
               entities |-> FlatEntities(content.top, filePath,
                                determineSourceType(filePath, drupalRoot))]

\* SERVICES_CACHE_PREFIX / ROUTES_CACHE_PREFIX / LINKS_CACHE_PREFIX + filePath
CacheKey(kind, filePath) ==
    CASE kind = "service" -> SERVICES_CACHE_PREFIX \o filePath
      [] kind = "route" -> ROUTES_CACHE_PREFIX \o filePath
      [] kind = "link" -> LINKS_CACHE_PREFIX \o filePath

\* The filename test of handleFileChange and of the server's event handlers:
\* endsWith('.services.yml'), endsWith('.routing.yml'), includes('.links.').
FileTest(kind, filePath) ==
    CASE kind = "service" -> EndsWith(filePath, SERVICES_SUFFIX)
      [] kind = "route" -> EndsWith(filePath, ROUTING_SUFFIX)
      [] kind = "link" -> Includes(filePath, LINKS_INFIX)

\* Set.prototype.add / delete on an insertion-ordered set
\* The sequences that hold each element of the set S once.
Orders(S) ==
    {s \in [1..Cardinality(S) -> S] :
        \A i, j \in 1..Cardinality(S) : i # j => s[i] # s[j]}

SetAdd(seq, x) == IF \E i \in 1..Len(seq) : seq[i] = x THEN seq ELSE Append(seq, x)
SetDelete(seq, x) == SelectSeq(seq, LAMBDA y : y # x)
SetHas(seq, x) == \E i \in 1..Len(seq) : seq[i] = x

\* Concatenation of a sequence of sequences
RECURSIVE Flatten(_)
Flatten(ss) == IF ss = <<>> THEN <<>> ELSE Head(ss) \o Flatten(Tail(ss))

\* getAllServices / getAllLinks, and the first loop of getAllRoutes: the
\* cached lists of the scanned files, in scannedFiles order.
CachedEntities(kind, c, scanned, t) ==
    Flatten([i \in 1..Len(scanned[kind]) |->
        LET key == CacheKey(kind, scanned[kind][i])
        IN  IF CacheLive(c, key, t) THEN CacheGet(c, key, t) ELSE <<>>])

\* YamlServiceParser.getAllServices
getAllServices(c, scanned, t) == CachedEntities("service", c, scanned, t)

\* YamlLinkParser.getAllLinks
getAllLinks(c, scanned, t) == CachedEntities("link", c, scanned, t)

\* CommonEntityRoutes.COMMON_ENTITY_ROUTES
COMMON_ENTITY_ROUTES == <<
    <<"e", "n", "t", "i", "t", "y", ".", "n", "o", "d", "e", ".", "c", "a", "n", "o", "n", "i", "c", "a", "l">>,
    <<"e", "n", "t", "i", "t", "y", ".", "n", "o", "d", "e", ".", "e", "d", "i", "t", "_", "f", "o", "r", "m">>,
    <<"e", "n", "t", "i", "t", "y", ".", "n", "o", "d", "e", ".", "d", "e", "l", "e", "t", "e", "_", "f", "o", "r", "m">>,
    <<"e", "n", "t", "i", "t", "y", ".", "n", "o", "d", "e", ".", "v", "e", "r", "s", "i", "o", "n", "_", "h", "i", "s", "t", "o", "r", "y">>,
    <<"e", "n", "t", "i", "t", "y", ".", "n", "o", "d", "e", ".", "r", "e", "v", "i", "s", "i", "o", "n">>,
    <<"e", "n", "t", "i", "t", "y", ".", "n", "o", "d", "e", ".", "a", "p", "p", "l", "i", "c", "a", "t", "i", "o", "n", "_", "c", "r", "e", "a", "t", "e">>,
    <<"e", "n", "t", "i", "t", "y", ".", "n", "o", "d", "e", ".", "a", "d", "d", "_", "f", "o", "r", "m">>,
    <<"e", "n", "t", "i", "t", "y", ".", "n", "o", "d", "e", ".", "a", "d", "d", "_", "p", "a", "g", "e">>,
    <<"e", "n", "t", "i", "t", "y", ".", "u", "s", "e", "r", ".", "c", "a", "n", "o", "n", "i", "c", "a", "l">>,
    <<"e", "n", "t", "i", "t", "y", ".", "u", "s", "e", "r", ".", "e", "d", "i", "t", "_", "f", "o", "r", "m">>,
    <<"e", "n", "t", "i", "t", "y", ".", "u", "s", "e", "r", ".", "c", "a", "n", "c", "e", "l", "_", "f", "o", "r", "m">>,
    <<"e", "n", "t", "i", "t", "y", ".", "u", "s", "e", "r", ".", "c", "o", "l", "l", "e", "c", "t", "i", "o", "n">>,
    <<"e", "n", "t", "i", "t", "y", ".", "t", "a", "x", "o", "n", "o", "m", "y", "_", "t", "e", "r", "m", ".", "c", "a", "n", "o", "n", "i", "c", "a", "l">>,
    <<"e", "n", "t", "i", "t", "y", ".", "t", "a", "x", "o", "n", "o", "m", "y", "_", "t", "e", "r", "m", ".", "e", "d", "i", "t", "_", "f", "o", "r", "m">>,
    <<"e", "n", "t", "i", "t", "y", ".", "t", "a", "x", "o", "n", "o", "m", "y", "_", "t", "e", "r", "m", ".", "d", "e", "l", "e", "t", "e", "_", "f", "o", "r", "m">>,
    <<"e", "n", "t", "i", "t", "y", ".", "t", "a", "x", "o", "n", "o", "m", "y", "_", "t", "e", "r", "m", ".", "a", "d", "d", "_", "f", "o", "r", "m">>,
    <<"e", "n", "t", "i", "t", "y", ".", "t", "a", "x", "o", "n", "o", "m", "y", "_", "v", "o", "c", "a", "b", "u", "l", "a", "r", "y", ".", "c", "o", "l", "l", "e", "c", "t", "i", "o", "n">>,
    <<"e", "n", "t", "i", "t", "y", ".", "t", "a", "x", "o", "n", "o", "m", "y", "_", "v", "o", "c", "a", "b", "u", "l", "a", "r", "y", ".", "o", "v", "e", "r", "v", "i", "e", "w", "_", "f", "o", "r", "m">>,
    <<"e", "n", "t", "i", "t", "y", ".", "c", "o", "m", "m", "e", "n", "t", ".", "c", "a", "n", "o", "n", "i", "c", "a", "l">>,
    <<"e", "n", "t", "i", "t", "y", ".", "c", "o", "m", "m", "e", "n", "t", ".", "e", "d", "i", "t", "_", "f", "o", "r", "m">>,
    <<"e", "n", "t", "i", "t", "y", ".", "c", "o", "m", "m", "e", "n", "t", ".", "d", "e", "l", "e", "t", "e", "_", "f", "o", "r", "m">>,
    <<"e", "n", "t", "i", "t", "y", ".", "m", "e", "d", "i", "a", ".", "c", "a", "n", "o", "n", "i", "c", "a", "l">>,
    <<"e", "n", "t", "i", "t", "y", ".", "m", "e", "d", "i", "a", ".", "e", "d", "i", "t", "_", "f", "o", "r", "m">>,
    <<"e", "n", "t", "i", "t", "y", ".", "m", "e", "d", "i", "a", ".", "d", "e", "l", "e", "t", "e", "_", "f", "o", "r", "m">>,
    <<"e", "n", "t", "i", "t", "y", ".", "m", "e", "d", "i", "a", ".", "a", "d", "d", "_", "f", "o", "r", "m">>,
    <<"e", "n", "t", "i", "t", "y", ".", "m", "e", "d", "i", "a", ".", "c", "o", "l", "l", "e", "c", "t", "i", "o", "n">>,
    <<"e", "n", "t", "i", "t", "y", ".", "f", "i", "l", "e", ".", "c", "a", "n", "o", "n", "i", "c", "a", "l">>,
    <<"e", "n", "t", "i", "t", "y", ".", "b", "l", "o", "c", "k", "_", "c", "o", "n", "t", "e", "n", "t", ".", "c", "a", "n", "o", "n", "i", "c", "a", "l">>,
    <<"e", "n", "t", "i", "t", "y", ".", "b", "l", "o", "c", "k", "_", "c", "o", "n", "t", "e", "n", "t", ".", "e", "d", "i", "t", "_", "f", "o", "r", "m">>,
    <<"e", "n", "t", "i", "t", "y", ".", "b", "l", "o", "c", "k", "_", "c", "o", "n", "t", "e", "n", "t", ".", "d", "e", "l", "e", "t", "e", "_", "f", "o", "r", "m">>,
    <<"e", "n", "t", "i", "t", "y", ".", "m", "e", "n", "u", ".", "e", "d", "i", "t", "_", "f", "o", "r", "m">>,
    <<"e", "n", "t", "i", "t", "y", ".", "m", "e", "n", "u", ".", "d", "e", "l", "e", "t", "e", "_", "f", "o", "r", "m">>,
    <<"e", "n", "t", "i", "t", "y", ".", "m", "e", "n", "u", ".", "c", "o", "l", "l", "e", "c", "t", "i", "o", "n">>,
    <<"e", "n", "t", "i", "t", "y", ".", "v", "i", "e", "w", ".", "e", "d", "i", "t", "_", "f", "o", "r", "m">>,
    <<"e", "n", "t", "i", "t", "y", ".", "v", "i", "e", "w", ".", "c", "o", "l", "l", "e", "c", "t", "i", "o", "n">>,
    <<"s", "y", "s", "t", "e", "m", ".", "a", "d", "m", "i", "n">>,
    <<"s", "y", "s", "t", "e", "m", ".", "a", "d", "m", "i", "n", "_", "c", "o", "n", "t", "e", "n", "t">>,
    <<"s", "y", "s", "t", "e", "m", ".", "a", "d", "m", "i", "n", "_", "s", "t", "r", "u", "c", "t", "u", "r", "e">>,
    <<"s", "y", "s", "t", "e", "m", ".", "a", "d", "m", "i", "n", "_", "c", "o", "n", "f", "i", "g">>,
    <<"s", "y", "s", "t", "e", "m", ".", "t", "h", "e", "m", "e", "s", "_", "p", "a", "g", "e">>,
    <<"s", "y", "s", "t", "e", "m", ".", "m", "o", "d", "u", "l", "e", "s", "_", "l", "i", "s", "t">>,
    <<"s", "y", "s", "t", "e", "m", ".", "s", "t", "a", "t", "u", "s">>,
    <<"s", "y", "s", "t", "e", "m", ".", "a", "d", "m", "i", "n", "_", "r", "e", "p", "o", "r", "t", "s">>,
    <<"u", "s", "e", "r", ".", "l", "o", "g", "i", "n">>,
    <<"u", "s", "e", "r", ".", "l", "o", "g", "o", "u", "t">>,
    <<"u", "s", "e", "r", ".", "r", "e", "g", "i", "s", "t", "e", "r">>,
    <<"u", "s", "e", "r", ".", "p", "a", "s", "s">>,
    <<"u", "s", "e", "r", ".", "p", "a", "g", "e">>,
    <<"u", "s", "e", "r", ".", "a", "d", "m", "i", "n", "_", "p", "e", "r", "m", "i", "s", "s", "i", "o", "n", "s">>,
    <<"u", "s", "e", "r", ".", "r", "o", "l", "e", "_", "l", "i", "s", "t">>,
    <<"u", "s", "e", "r", ".", "a", "d", "m", "i", "n", "_", "i", "n", "d", "e", "x">>,
    <<"n", "o", "d", "e", ".", "a", "d", "d", "_", "p", "a", "g", "e">>,
    <<"n", "o", "d", "e", ".", "a", "d", "d">>,
    <<"s", "y", "s", "t", "e", "m", ".", "d", "b", "_", "u", "p", "d", "a", "t", "e">>,
    <<"p", "a", "t", "h", ".", "a", "d", "m", "i", "n", "_", "o", "v", "e", "r", "v", "i", "e", "w">>,
    <<"p", "a", "t", "h", ".", "a", "d", "m", "i", "n", "_", "a", "d", "d">>,
    <<"s", "y", "s", "t", "e", "m", ".", "s", "i", "t", "e", "_", "i", "n", "f", "o", "r", "m", "a", "t", "i", "o", "n", "_", "s", "e", "t", "t", "i", "n", "g", "s">>,
    <<"s", "y", "s", "t", "e", "m", ".", "p", "e", "r", "f", "o", "r", "m", "a", "n", "c", "e", "_", "s", "e", "t", "t", "i", "n", "g", "s">>,
    <<"s", "y", "s", "t", "e", "m", ".", "l", "o", "g", "g", "i", "n", "g", "_", "s", "e", "t", "t", "i", "n", "g", "s">>,
    <<"s", "y", "s", "t", "e", "m", ".", "c", "r", "o", "n", "_", "s", "e", "t", "t", "i", "n", "g", "s">>,
    <<"v", "i", "e", "w", ".", "f", "r", "o", "n", "t", "p", "a", "g", "e", ".", "p", "a", "g", "e", "_", "1">>,
    <<"v", "i", "e", "w", ".", "c", "o", "n", "t", "e", "n", "t", ".", "p", "a", "g", "e", "_", "1">>,
    <<"v", "i", "e", "w", ".", "f", "i", "l", "e", "s", ".", "p", "a", "g", "e", "_", "1">>,
    <<"v", "i", "e", "w", ".", "u", "s", "e", "r", "_", "a", "d", "m", "i", "n", "_", "p", "e", "o", "p", "l", "e", ".", "p", "a", "g", "e", "_", "1">>
>>

\* The synthetic entry getAllRoutes adds for a common entity route.
CommonRoute(routeName) ==
    [name |-> routeName, detail |-> NoString, sourceFile |-> NoString,
     sourceType |-> "core", sourceLine |-> NoString]

\* The synthetic entries of the names of the list at their first occurrence:
\* a name the loop of getAllRoutes has pushed is found in allRoutes when the
\* list has it again.
CommonRoutesOnce ==
    LET indexed == [i \in 1..Len(COMMON_ENTITY_ROUTES) |-> <<i, COMMON_ENTITY_ROUTES[i]>>]
        first == SelectSeq(indexed, LAMBDA p :
                     \A j \in 1..(p[1] - 1) : COMMON_ENTITY_ROUTES[j] # p[2])
    IN  [i \in 1..Len(first) |-> CommonRoute(first[i][2])]

\* A variant of getAllRoutes without the common entity routes.
getAllRoutesCachedOnly(c, scanned, t) == CachedEntities("route", c, scanned, t)

\* YamlRouteParser.getAllRoutes: the cached routes, then every common entity
\* route whose name is not yet in the list.
getAllRoutes(c, scanned, t) ==
    LET allRoutes == CachedEntities("route", c, scanned, t)
    IN  allRoutes \o SelectSeq(CommonRoutesOnce,
                         LAMBDA r : ~\E i \in 1..Len(allRoutes) : allRoutes[i].name = r.name)

\* A sequence without the later repetitions of its elements ([...new Set(s)])
Dedup(s) ==
    LET indexed == [i \in 1..Len(s) |-> <<i, s[i]>>]
        first == SelectSeq(indexed, LAMBDA p : \A j \in 1..(p[1] - 1) : s[j] # p[2])
    IN  [i \in 1..Len(first) |-> first[i][2]]

NamesOf(entities) == [i \in 1..Len(entities) |-> entities[i].name]

\* YamlServiceParser.getAllServiceNames
getAllServiceNames(c, scanned, t) == NamesOf(getAllServices(c, scanned, t))

\* YamlLinkParser.getAllLinkNames
getAllLinkNames(c, scanned, t) == NamesOf(getAllLinks(c, scanned, t))

\* YamlRouteParser.getAllRouteNames
getAllRouteNames(c, scanned, t) ==
    Dedup(NamesOf(getAllRoutes(c, scanned, t)) \o COMMON_ENTITY_ROUTES)

\* A variant of getService that keeps the last entity of that name it
\* meets.
getServiceLastWins(c, scanned, t, serviceName) ==
    LET hits == SelectSeq(CachedEntities("service", c, scanned, t), LAMBDA s : s.name = serviceName)
    IN  IF hits = <<>> THEN <<>> ELSE <<hits[Len(hits)]>>

\* YamlServiceParser.getService: the first entity of that name, in
\* scannedFiles order, as a one-element sequence; null is the empty sequence.
getService(c, scanned, t, serviceName) ==
    LET hits == SelectSeq(getAllServices(c, scanned, t), LAMBDA s : s.name = serviceName)
    IN  IF hits = <<>> THEN <<>> ELSE <<hits[1]>>

\* The entities getAll returns for one kind (getAllServices, getAllRoutes,
\* getAllLinks).
getAll(kind, c, scanned, t) ==
    CASE kind = "service" -> getAllServices(c, scanned, t)
      [] kind = "route" -> getAllRoutes(c, scanned, t)
      [] kind = "link" -> getAllLinks(c, scanned, t)

\* The names a lookup by name hits for one kind (getService for services; the
\* provider's Set of getAllRouteNames / getAllLinkNames for routes and links).
LookupHits(kind, c, scanned, t, name) ==
    LET names == CASE kind = "route" -> getAllRouteNames(c, scanned, t)
                   [] kind = "link" -> getAllLinkNames(c, scanned, t)
                   [] OTHER -> <<>>
    IN  IF kind = "service" THEN getService(c, scanned, t, name) # <<>>
        ELSE \E i \in 1..Len(names) : names[i] = name


(***************************************************************************)
(* The workspace of the model                                              *)
(***************************************************************************)

\* DrupalProjectResolver.getDrupalRootAbsolute() of the modelled workspace
DrupalRoot == <<"/", "w">>

F_CUSTOM_SVC == DrupalRoot \o CUSTOM_MARKER \o <<"a", "/", "a">> \o SERVICES_SUFFIX
F_CONTRIB_SVC == DrupalRoot \o CONTRIB_MARKER \o <<"b", "/", "b">> \o SERVICES_SUFFIX
F_PLAIN_SVC == DrupalRoot \o <<"/", "m", "o", "d", "u", "l", "e", "s", "/", "c", "/", "c">> \o SERVICES_SUFFIX
F_CUSTOM_ROUTING == DrupalRoot \o CUSTOM_MARKER \o <<"a", "/", "a">> \o ROUTING_SUFFIX
F_CUSTOM_LINKS == DrupalRoot \o CUSTOM_MARKER \o <<"a", "/", "a">> \o LINKS_INFIX \o <<"m", "e", "n", "u", ".", "y", "m", "l">>

Files == {F_CUSTOM_SVC, F_CONTRIB_SVC, F_PLAIN_SVC, F_CUSTOM_ROUTING, F_CUSTOM_LINKS}

\* A PHP file of custom code
F_CUSTOM_PHP == DrupalRoot \o CUSTOM_MARKER \o <<"a", "/", "a">> \o PHP_SUFFIX

\* Two more paths of custom code, which exist only in the workspace of the
\* synchronisation runs: a services file below a tests directory and the
\* backup copy of a links file.
F_CUSTOM_TEST_SVC == DrupalRoot \o CUSTOM_MARKER \o <<"a", "/", "t", "e", "s", "t", "s", "/", "a">> \o SERVICES_SUFFIX
F_CUSTOM_LINKS_BAK == F_CUSTOM_LINKS \o <<".", "b", "a", "k">>

AllFiles == Files \cup {F_CUSTOM_TEST_SVC, F_CUSTOM_LINKS_BAK, F_CUSTOM_PHP}

NAME_X == <<"x">>
NAME_Y == <<"y">>

\* services:\n  x:\n    class: A
DOC_SVC_X ==
    YamlDoc(<<YamlPair(SERVICES_KEY, 1,
                 MapVal(<<YamlPair(NAME_X, 2, MapVal(<<>>, <<"A">>))>>, NoString))>>)

\* services:\n  x:\n    class: A\n  y:\n    class: B
DOC_SVC_XY ==
    YamlDoc(<<YamlPair(SERVICES_KEY, 1,
                 MapVal(<<YamlPair(NAME_X, 2, MapVal(<<>>, <<"A">>)),
                          YamlPair(NAME_Y, 4, MapVal(<<>>, <<"B">>))>>, NoString))>>)

\* x:\n  path: /x
DOC_FLAT_X == YamlDoc(<<YamlPair(NAME_X, 1, MapVal(<<>>, <<"/", "x">>))>>)

\* services:\n  x:\n    class: A\n  y
\* (the last line is a key without ':': "Implicit map keys need to be
\* followed by map values")
DOC_SVC_X_BROKEN ==
    BrokenDoc(<<YamlPair(SERVICES_KEY, 1,
                   MapVal(<<YamlPair(NAME_X, 2, MapVal(<<>>, <<"A">>)),
                            YamlPair(NAME_Y, 4, NullVal)>>, NoString))>>)

\* x:\n  path: /x\ny
DOC_FLAT_X_BROKEN ==
    BrokenDoc(<<YamlPair(NAME_X, 1, MapVal(<<>>, <<"/", "x">>)),
                YamlPair(NAME_Y, 3, NullVal)>>)

\* x:\n  path: /x\ny:\n  path: /y
DOC_FLAT_XY ==
    YamlDoc(<<YamlPair(NAME_X, 1, MapVal(<<>>, <<"/", "x">>)),
              YamlPair(NAME_Y, 3, MapVal(<<>>, <<"/", "y">>))>>)

\* entity.node.canonical:\n  path: /n
\* (a routing file that defines a route of the common entity route list)
DOC_FLAT_COMMON ==
    YamlDoc(<<YamlPair(COMMON_ENTITY_ROUTES[1], 1, MapVal(<<>>, <<"/", "n">>))>>)

\* The contents a file of the model can have.
Contents(f) ==
    IF EndsWith(f, SERVICES_SUFFIX) THEN {DOC_SVC_X, DOC_SVC_XY} ELSE {DOC_FLAT_X, DOC_FLAT_XY}

Names == {NAME_X, NAME_Y}

(***************************************************************************)
(* The full scan                                                           *)
(***************************************************************************)

IGNORED_DIRS ==
    {<<"/", "n", "o", "d", "e", "_", "m", "o", "d", "u", "l", "e", "s", "/">>,
     <<"/", "v", "e", "n", "d", "o", "r", "/">>,
     <<"/", "t", "e", "s", "t", "s", "/">>,
     <<"/", "t", "e", "s", "t", "/">>}

YML_SUFFIX == <<".", "y", "m", "l">>

\* The part of s after its last '/'
Basename(s) ==
    LET slashes == {i \in 1..Len(s) : s[i] = "/"}
    IN  IF slashes = {} THEN s
        ELSE SubSeq(s, (CHOOSE i \in slashes : \A j \in slashes : j <= i) + 1, Len(s))

\* fast-glob with cwd drupalRoot, patterns '**/*.services.yml',
\* '**/*.routing.yml', '**/*.links.*.yml', the four ignored directories and
\* the default dot: false.
GlobMatch(kind, filePath, drupalRoot) ==
    /\ StartsWith(filePath, drupalRoot \o <<"/">>)
    /\ LET rel == SubSeq(filePath, Len(drupalRoot) + 1, Len(filePath))
           base == Basename(rel)
       IN  /\ \A d \in IGNORED_DIRS : ~Includes(rel, d)
           /\ ~Includes(rel, <<"/", ".">>)
           /\ CASE kind = "service" -> EndsWith(base, SERVICES_SUFFIX)
                [] kind = "route" -> EndsWith(base, ROUTING_SUFFIX)
                [] kind = "link" ->
                      /\ EndsWith(base, YML_SUFFIX)
                      /\ \E i \in 2..Len(base) :
                            /\ OccursAt(base, LINKS_INFIX, i)
                            /\ i + Len(LINKS_INFIX) <= Len(base) - Len(YML_SUFFIX) + 1

(***************************************************************************)
(* State of the server                                                     *)
(***************************************************************************)

MaxEvents == 3
MaxInFlight == 2

\* Every content of the model, and the functions of the model's files
\* tabulated: what parseFile computes, the cache key, the filename test and
\* the parsers an event reaches.
AllContents ==
    {DOC_SVC_X, DOC_SVC_XY, DOC_FLAT_X, DOC_FLAT_XY, Absent, Malformed,
     DOC_SVC_X_BROKEN, DOC_FLAT_X_BROKEN, DOC_FLAT_COMMON}

ParseTable ==
    [k \in KindSet |-> [f \in AllFiles |-> [c \in AllContents |->
        ParseResult(k, c, f, DrupalRoot)]]]

KeyTable == [k \in KindSet |-> [f \in AllFiles |-> CacheKey(k, f)]]

TestTable == [k \in KindSet |-> [f \in AllFiles |-> FileTest(k, f)]]

\* The parsers an event for a file reaches, in the order of the handler's
\* if-statements: the file must be custom code and pass the parser's filename
\* test.
KindsTable ==
    [f \in AllFiles |->
        IF isCustomCode(f) THEN SelectSeq(Kinds, LAMBDA k : FileTest(k, f)) ELSE <<>>]

\* The index state the parsers' methods work on, with the history the
\* properties refer to.
Ix ==
    [cache |-> cache, scanned |-> scannedFiles,
     lastOp |-> lastOp, expect |-> expect, raced |-> raced]

\* YamlServiceParser.clearCache(filePath) (and the route and link parsers')
clearCache(ix, kind, filePath) ==
    [ix EXCEPT !.cache = CacheDelete(@, KeyTable[kind][filePath])]

\* A variant of parseFile that stores the list with the cache's default TTL
\* of five minutes.
parseFileDefaultTtl(ix, kind, filePath) ==
    LET r == ParseTable[kind][filePath][disk[filePath]]
    IN  IF r.stored
        THEN [ix EXCEPT !.cache = CacheSet(@, KeyTable[kind][filePath], r.entities,
                                           Millis(5 * 60 * 1000), now)]
        ELSE ix

\* parseFile: reads the file from disk, and stores the parsed list under the
\* file's key with infinite TTL unless reading throws or it returns early.
parseFile(ix, kind, filePath) ==
    LET r == ParseTable[kind][filePath][disk[filePath]]
    IN  IF r.stored
        THEN [ix EXCEPT !.cache = CacheSet(@, KeyTable[kind][filePath], r.entities, Infinity, now)]
        ELSE ix

\* A variant of handleFileChange that adds the parsed entities to the list
\* the cache has for the file.
handleFileChangeStartMerge(ix, kind, filePath) ==
    LET key == KeyTable[kind][filePath]
        r == ParseTable[kind][filePath][disk[filePath]]
        old == IF key \in DOMAIN ix.cache THEN ix.cache[key].value ELSE <<>>
    IN  IF TestTable[kind][filePath] /\ r.stored
        THEN [ix EXCEPT !.cache = CacheSet(@, key, old \o r.entities, Infinity, now)]
        ELSE ix

\* A variant of handleFileChange that purges the file's entry and leaves the
\* parse for after the suspension.
handleFileChangeStartPurgeOnly(ix, kind, filePath) ==
    clearCache(ix, kind, filePath)

\* A variant of handleFileChange that keeps an entry the cache already has.
handleFileChangeStartKeepCached(ix, kind, filePath) ==
    IF KeyTable[kind][filePath] \in DOMAIN ix.cache THEN ix
    ELSE IF TestTable[kind][filePath] THEN parseFile(ix, kind, filePath) ELSE ix

\* handleFileChange up to its await: clearCache, then parseFile, which runs
\* to its end without suspending.
handleFileChangeStart(ix, kind, filePath) ==
    LET cleared == clearCache(ix, kind, filePath)
    IN  IF TestTable[kind][filePath] THEN parseFile(cleared, kind, filePath) ELSE cleared

\* A variant of handleFileChange that puts the file at the end of
\* scannedFiles also when it is already there.
handleFileChangeEndMoveToEnd(ix, kind, filePath) ==
    IF TestTable[kind][filePath]
    THEN [ix EXCEPT !.scanned[kind] = Append(SetDelete(@, filePath), filePath)]
    ELSE ix

\* A variant of handleFileChange whose parse stores its list after the
\* await.
handleFileChangeEndStoreLate(ix, kind, filePath) ==
    IF TestTable[kind][filePath]
    THEN [parseFile(ix, kind, filePath) EXCEPT !.scanned[kind] = SetAdd(@, filePath)]
    ELSE ix

\* handleFileChange after its await: scannedFiles.add(filePath)
handleFileChangeEnd(ix, kind, filePath) ==
    IF TestTable[kind][filePath]
    THEN [ix EXCEPT !.scanned[kind] = SetAdd(@, filePath)]
    ELSE ix

\* A variant of handleFileDelete that forgets the file but keeps its entry.
handleFileDeleteKeepEntry(ix, kind, filePath) ==
    [ix EXCEPT !.scanned[kind] = SetDelete(@, filePath)]

\* handleFileDelete: clearCache, scannedFiles.delete
handleFileDelete(ix, kind, filePath) ==
    [clearCache(ix, kind, filePath) EXCEPT !.scanned[kind] = SetDelete(@, filePath)]

\* History: a handleFileChange for (kind, filePath) starts; others are the
\* (kind, file) pairs of the handleFileChange calls suspended at that moment.
\* The bit n of lastOp flips at every start; had says whether the index had a
\* stored list of the file, of a scanned file, when the call started, and
\* same whether that list was the one the file on disk parses to.
NoteChange(ix, kind, filePath, src, others) ==
    LET r == ParseTable[kind][filePath][disk[filePath]]
        ents == IF r.stored THEN r.entities ELSE <<>>
    IN  [ix EXCEPT
            !.lastOp[kind][filePath] =
                [op |-> IF src = "content" THEN "content" ELSE "change", n |-> 1 - @.n,
                 had |-> /\ SetHas(ix.scanned[kind], filePath)
                         /\ CacheLive(ix.cache, KeyTable[kind][filePath], now),
                 same |-> /\ SetHas(ix.scanned[kind], filePath)
                          /\ CacheLive(ix.cache, KeyTable[kind][filePath], now)
                          /\ r.stored
                          /\ CacheGet(ix.cache, KeyTable[kind][filePath], now) = r.entities],
            !.raced[kind][filePath] =
                (<<kind, filePath>> \in others /\ ix.expect[kind][filePath] # ents),
            !.expect[kind][filePath] = ents]

\* History: a handleFileDelete for (kind, filePath) ran; raced says whether
\* a handleFileChange for the file was suspended then.
NoteDelete(ix, kind, filePath, others) ==
    [ix EXCEPT
        !.lastOp[kind][filePath] = [op |-> "delete", n |-> @.n, had |-> FALSE, same |-> FALSE],
        !.raced[kind][filePath] = (<<kind, filePath>> \in others),
        !.expect[kind][filePath] = <<>>]

EventKinds(filePath) == KindsTable[filePath]

SERVICE_PATTERN == <<"s", "e", "r", "v", "i", "c", "e", ":", "*">>
ROUTE_PATTERN == <<"r", "o", "u", "t", "e", ":", "*">>
LINK_PATTERN == <<"l", "i", "n", "k", ":", "*">>
CLASS_PATTERN == <<"c", "l", "a", "s", "s", ":", "*">>
METHOD_PATTERN == <<"m", "e", "t", "h", "o", "d", ":", "*">>

\* A variant of the category invalidation whose patterns are the parsers'
\* key prefixes (yaml:services:*, yaml:routes:*, yaml:links:*).
CategoryPatternOfKeys(kind) == CacheKey(kind, <<"*">>)

\* The category invalidation onDidChangeContent issues before it re-indexes.
CategoryPattern(kind) ==
    CASE kind = "service" -> SERVICE_PATTERN
      [] kind = "route" -> ROUTE_PATTERN
      [] kind = "link" -> LINK_PATTERN

\* A call that is suspended at an await.  For a handler (src "content" or
\* "watched") events and kinds are what it has yet to process, the first of
\* each being the handleFileChange it awaits: in phase "parse" that call is
\* suspended at its await of parseFile, in phase "return" it has run to its
\* end and the handler has yet to resume.  For onInitialize (src "init") and
\* for a single call of scanAndIndex (src "scan") kinds are the parsers yet
\* to scan, the first being the scanAndIndex it awaits: in phase "glob" the
\* glob has been called, in phase "files" the glob has answered, in phase
\* "parse" the parseFile of files[at] has run and the loop is suspended at
\* its await, in phase "return" scanAndIndex has returned and onInitialize
\* has yet to resume.
Suspended(src, phase, events, kinds, files, at) ==
    [src |-> src, phase |-> phase, events |-> events, kinds |-> kinds, files |-> files, at |-> at]

ScanSources == {"init", "scan"}

\* A handler (onDidChangeContent: src "content"; onDidChangeWatchedFiles: src
\* "watched") runs from the parser call for Head(kinds) of Head(events) to
\* its next await or to its end.  The result is the index state and the
\* suspended handler (none when the handler has returned).
RECURSIVE Run(_, _, _, _, _)
Run(ix, src, events, kinds, others) ==
    IF events = <<>> THEN [ix |-> ix, handler |-> <<>>]
    ELSE IF kinds = <<>>
    THEN IF Len(events) = 1 THEN [ix |-> ix, handler |-> <<>>]
         ELSE Run(ix, src, Tail(events), EventKinds(events[2].file), others)
    ELSE LET e == Head(events)
             k == Head(kinds)
         IN  IF e.type \in {1, 2}
             THEN LET pre == IF src = "content"
                             THEN [ix EXCEPT !.cache = clearPattern(@, CategoryPattern(k))]
                             ELSE ix
                  IN  [ix |-> handleFileChangeStart(NoteChange(pre, k, e.file, src, others), k, e.file),
                       handler |-> <<Suspended(src, IF TestTable[k][e.file] THEN "parse" ELSE "return",
                                               events, kinds, <<>>, 0)>>]
             ELSE Run(handleFileDelete(NoteDelete(ix, k, e.file, others), k, e.file),
                      src, events, Tail(kinds), others)

\* The (kind, file) pairs of the handleFileChange calls suspended at their
\* await of parseFile, leaving out the handler at position skip.
Awaited(hs, skip) ==
    {<<hs[i].kinds[1], hs[i].events[1].file>> :
        i \in {j \in (1..Len(hs)) \ {skip} : hs[j].src \notin ScanSources /\ hs[j].phase = "parse"}}

\* The state after a handler ran: the index, and the handler appended to the
\* suspended ones unless it returned.
Commit(r, hs) ==
    /\ cache' = r.ix.cache
    /\ scannedFiles' = r.ix.scanned
    /\ lastOp' = r.ix.lastOp
    /\ expect' = r.ix.expect
    /\ raced' = r.ix.raced
    /\ handlers' = hs \o r.handler

\* The cache after the cache.get calls of a loop over files, in order.
RECURSIVE AfterGets(_, _, _, _)
AfterGets(c, kind, files, t) ==
    IF files = <<>> THEN c
    ELSE AfterGets(CacheAfterGet(c, CacheKey(kind, Head(files)), t), kind, Tail(files), t)

\* The cache after getAllServices / getAllRoutes / getAllLinks (and the names
\* lookups, which call them): one cache.get per scanned file.
CacheAfterGetAll(c, kind, scanned, t) == AfterGets(c, kind, scanned[kind], t)

\* The loop of scanAndIndex up to the await of parseFile(file): the file is
\* read and its list stored.
scanParse(ix, kind, file) ==
    LET r == ParseTable[kind][file][disk[file]]
    IN  [parseFile(ix, kind, file) EXCEPT
            !.lastOp[kind][file] = [op |-> "scan", n |-> @.n, had |-> FALSE, same |-> FALSE],
            !.expect[kind][file] = IF r.stored THEN r.entities ELSE <<>>]

\* The loop of scanAndIndex after that await: scannedFiles.add(file)
scanAdd(ix, kind, file) == [ix EXCEPT !.scanned[kind] = SetAdd(@, file)]

\* getAllServices / getAllRoutes / getAllLinks as an operation on the index:
\* its cache.get calls delete the expired entries of the scanned files.
getAllLookup(ix, kind) ==
    [ix EXCEPT !.cache = CacheAfterGetAll(@, kind, ix.scanned, now)]

\* hasCachedServices / hasCachedRoutes / hasCachedLinks: getAll of the
\* parser returns at least one entity.
hasCachedEntities(ix, kind) == Len(getAll(kind, ix.cache, ix.scanned, now)) > 0

\* A variant of the test of scanAndIndex that runs the full scan at every
\* call.
hasCacheNever(ix, kind) == FALSE

\* The test of scanAndIndex: a file is scanned and getAll returns an entity.
hasCache(ix, kind) == Len(ix.scanned[kind]) > 0 /\ hasCachedEntities(ix, kind)

\* The end of scanAndIndex: return getAll().length
scanAndIndexReturn(ix, kind) ==
    [ix |-> getAllLookup(ix, kind), count |-> Len(getAll(kind, ix.cache, ix.scanned, now))]

\* scanAndIndex of a parser from its call to its await of the glob, or to
\* its return when the full scan is not run.  getAll is called by the test
\* only when a file is scanned.
scanAndIndexStart(ix, kind) ==
    LET tested == IF Len(ix.scanned[kind]) > 0 THEN getAllLookup(ix, kind) ELSE ix
    IN  IF hasCache(ix, kind)
        THEN [ix |-> scanAndIndexReturn(tested, kind).ix, returned |-> TRUE,
              count |-> scanAndIndexReturn(tested, kind).count]
        ELSE [ix |-> tested, returned |-> FALSE, count |-> 0]

\* scanAndIndex resumes in its loop over files: after the await of the glob
\* (at = 0) or of parseFile(files[at]).  It runs to the next await, or to
\* its return.
scanAndIndexLoop(ix, kind, files, at) ==
    LET added == IF at = 0 THEN ix ELSE scanAdd(ix, kind, files[at])
    IN  IF at < Len(files)
        THEN [ix |-> scanParse(added, kind, files[at + 1]), returned |-> FALSE, count |-> 0]
        ELSE [ix |-> scanAndIndexReturn(added, kind).ix, returned |-> TRUE,
              count |-> scanAndIndexReturn(added, kind).count]

\* The caller of scanAndIndex (onInitialize for the three parsers in turn,
\* or a single call) calls it for the parser Head(kinds): the call runs to
\* its await of the glob, or to its return when the full scan is not run.
\* onInitialize awaits the call, so it is suspended also when the call has
\* returned, until its turn comes.  counts are the numbers the calls
\* returned.
CallScans(ix, src, kinds) ==
    IF kinds = <<>> THEN [ix |-> ix, handler |-> <<>>, counts |-> <<>>]
    ELSE LET r == scanAndIndexStart(ix, Head(kinds))
         IN  IF r.returned
             THEN [ix |-> r.ix,
                   handler |-> IF src = "init"
                               THEN <<Suspended(src, "return", <<>>, kinds, <<>>, 0)>>
                               ELSE <<>>,
                   counts |-> <<r.count>>]
             ELSE [ix |-> r.ix,
                   handler |-> <<Suspended(src, "glob", <<>>, kinds, <<>>, 0)>>,
                   counts |-> <<>>]

\* The files on disk the pattern of a parser matches.
GlobMatches(kind) ==
    {f \in DOMAIN disk : disk[f] # Absent /\ GlobMatch(kind, f, DrupalRoot)}

\* What findAllServiceFiles / findAllRouteFiles / findAllLinkFiles returns:
\* the files on disk that match, in any order (fast-glob promises none), or
\* no file when the glob rejects (the catch branch logs and returns []).
GlobResults(kind) == Orders(GlobMatches(kind)) \cup {<<>>}

\* The answer fs of a glob shows that it rejected: files match and it
\* returned none.
GlobRejected(kind, fs) == fs = <<>> /\ GlobMatches(kind) # {}

(***************************************************************************)
(* Actions                                                                 *)
(***************************************************************************)

PureUnchanged == UNCHANGED <<pc, input, output, phpcs>>

\* A scan (onInitialize, or a single call of scanAndIndex) is suspended.
ScanInFlight == \E i \in 1..Len(handlers) : handlers[i].src \in ScanSources

\* onInitialize has run to its end: it registers the providers, which make
\* the lookups of the index, after the last of its scans.
ProvidersRegistered ==
    initialized /\ \A i \in 1..Len(handlers) : handlers[i].src # "init"

\* What an event takes from the budget of a run: an event that arrives while
\* a scan is suspended counts as ScanEventWeight events, which bounds the
\* events that arrive during a scan more tightly than those that arrive
\* after it.  A glob that rejects is such an event.
ScanEventWeight == 2
EventCost == IF ScanInFlight THEN ScanEventWeight ELSE 1

\* connection.onInitialize up to its first await: the parsers and the cache
\* are created and scanAndIndex of the service parser is called.
Initialize ==
    /\ ~initialized
    /\ initialized' = TRUE
    /\ Commit(CallScans(Ix, "init", Kinds), handlers)
    /\ UNCHANGED <<disk, docs, now, budget>>
    /\ PureUnchanged

\* The scan at position i goes on: the glob answers with the files that are
\* on disk now or rejects, or scanAndIndex resumes after an await and runs
\* to its next one or to its return, or onInitialize resumes after the
\* scanAndIndex it awaited has returned: it calls the next one, and after
\* the last it registers the providers and ends.  The number a single call
\* returns is the output.
ScanStep(i) ==
    /\ i \in 1..Len(handlers)
    /\ handlers[i].src \in ScanSources
    /\ LET h == handlers[i]
           k == h.kinds[1]
           rest == SubSeq(handlers, 1, i - 1) \o SubSeq(handlers, i + 1, Len(handlers))
       IN  IF h.phase = "glob"
           THEN /\ \E fs \in GlobResults(k) :
                      /\ GlobRejected(k, fs) => budget >= EventCost
                      /\ budget' = IF GlobRejected(k, fs) THEN budget - EventCost ELSE budget
                      /\ handlers' = [handlers EXCEPT ![i].phase = "files", ![i].files = fs]
                /\ UNCHANGED <<cache, scannedFiles, lastOp, expect, raced, pc, output>>
           ELSE IF h.phase = "return"
           THEN LET next == CallScans(Ix, h.src, Tail(h.kinds))
                IN  /\ Commit([ix |-> next.ix, handler |-> <<>>],
                              IF next.handler = <<>> THEN rest
                              ELSE [handlers EXCEPT ![i] = next.handler[1]])
                    /\ pc' = IF next.handler = <<>> /\ pc = "scanning" THEN "ready" ELSE pc
                    /\ UNCHANGED <<output, budget>>
           ELSE LET r == scanAndIndexLoop(Ix, k, h.files, h.at)
                IN  IF ~r.returned
                    THEN /\ Commit([ix |-> r.ix, handler |-> <<>>],
                                   [handlers EXCEPT ![i].phase = "parse", ![i].at = h.at + 1])
                         /\ UNCHANGED <<pc, output, budget>>
                    ELSE /\ Commit([ix |-> r.ix, handler |-> <<>>],
                                   IF h.src = "scan" THEN rest
                                   ELSE [handlers EXCEPT
                                            ![i] = Suspended(h.src, "return", <<>>, h.kinds, <<>>, 0)])
                         /\ output' = IF h.src = "scan" THEN r.count ELSE output
                         /\ UNCHANGED <<pc, budget>>
    /\ UNCHANGED <<initialized, disk, docs, now, input, phpcs>>

\* documents.onDidChangeContent for the document of file f whose text is now c
DidChangeContent(f, c) ==
    /\ initialized
    /\ budget >= EventCost
    /\ Len(handlers) < MaxInFlight
    /\ budget' = budget - EventCost
    /\ docs' = [docs EXCEPT ![f] = c]
    /\ LET pre == IF EndsWith(f, PHP_SUFFIX)
                  THEN [Ix EXCEPT !.cache = clearPattern(clearPattern(@, CLASS_PATTERN), METHOD_PATTERN)]
                  ELSE Ix
       IN  Commit(Run(pre, "content", <<[file |-> f, type |-> 2]>>, EventKinds(f),
                      Awaited(handlers, 0)), handlers)
    /\ UNCHANGED <<initialized, disk, now>>
    /\ PureUnchanged

\* connection.onDidChangeWatchedFiles for the events evs (type 1 created,
\* 2 changed, 3 deleted)
DidChangeWatchedFiles(evs) ==
    /\ initialized
    /\ budget >= EventCost
    /\ Len(handlers) < MaxInFlight
    /\ budget' = budget - EventCost
    /\ Commit(Run(Ix, "watched", evs, EventKinds(evs[1].file), Awaited(handlers, 0)), handlers)
    /\ UNCHANGED <<initialized, disk, docs, now>>
    /\ PureUnchanged

\* The handler at position i goes on: its handleFileChange resumes after
\* the await of parseFile and runs to its end, or the handler resumes after
\* its await of handleFileChange and runs to its next await or to its end.
Resume(i) ==
    /\ i \in 1..Len(handlers)
    /\ handlers[i].src \notin ScanSources
    /\ LET h == handlers[i]
           rest == SubSeq(handlers, 1, i - 1) \o SubSeq(handlers, i + 1, Len(handlers))
       IN  IF h.phase = "parse"
           THEN Commit([ix |-> handleFileChangeEnd(Ix, h.kinds[1], h.events[1].file), handler |-> <<>>],
                       [handlers EXCEPT ![i].phase = "return"])
           ELSE Commit(Run(Ix, h.src, h.events, Tail(h.kinds), Awaited(handlers, i)), rest)
    /\ UNCHANGED <<initialized, disk, docs, now, budget>>
    /\ PureUnchanged

\* The file system: a file is written or removed.
DiskWrite(f, c) ==
    /\ budget >= EventCost
    /\ disk[f] # c
    /\ budget' = budget - EventCost
    /\ disk' = [disk EXCEPT ![f] = c]
    /\ UNCHANGED <<initialized, docs, cache, now, scannedFiles, handlers, lastOp, expect, raced>>
    /\ PureUnchanged

DiskUnlink(f) ==
    /\ budget >= EventCost
    /\ disk[f] # Absent
    /\ budget' = budget - EventCost
    /\ disk' = [disk EXCEPT ![f] = Absent]
    /\ UNCHANGED <<initialized, docs, cache, now, scannedFiles, handlers, lastOp, expect, raced>>
    /\ PureUnchanged

\* The notifications with more than one event the model sends.
WatchedPairs ==
    {<<[file |-> F_CUSTOM_SVC, type |-> 2], [file |-> F_CUSTOM_SVC, type |-> 3]>>,
     <<[file |-> F_CUSTOM_SVC, type |-> 3], [file |-> F_CUSTOM_SVC, type |-> 1]>>}

WatchedBatches ==
    {<<[file |-> f, type |-> t]>> : f \in Files, t \in 2..3} \cup WatchedPairs

Closed == [state |-> "closed", top |-> <<>>]

\* The workspace at start: every file of the model exists, or the custom
\* services file is yet to be created.
DiskAll == [f \in Files |-> IF EndsWith(f, SERVICES_SUFFIX) THEN DOC_SVC_X ELSE DOC_FLAT_X]
InitialDisks == {DiskAll, [DiskAll EXCEPT ![F_CUSTOM_SVC] = Absent]}

\* The files the model writes, removes and edits.
DiskFiles == {F_CUSTOM_SVC}
EditedFiles == {F_CUSTOM_SVC}

Init ==
    /\ initialized = FALSE
    /\ disk \in InitialDisks
    /\ docs = [f \in Files |-> Closed]
    /\ cache = << >>
    /\ now = 0
    /\ scannedFiles = [k \in KindSet |-> <<>>]
    /\ handlers = <<>>
    /\ lastOp = [k \in KindSet |-> [f \in Files |-> [op |-> "none", n |-> 0, had |-> FALSE, same |-> FALSE]]]
    /\ expect = [k \in KindSet |-> [f \in Files |-> <<>>]]
    /\ raced = [k \in KindSet |-> [f \in Files |-> FALSE]]
    /\ budget = MaxEvents
    /\ phpcs = None
    /\ pc = None
    /\ input = None
    /\ output = None

Next ==
    \/ Initialize
    \/ \E i \in 1..MaxInFlight : ScanStep(i)
    \/ \E f \in EditedFiles : \E c \in Contents(f) : DidChangeContent(f, c)
    \/ \E evs \in WatchedBatches : DidChangeWatchedFiles(evs)
    \/ \E i \in 1..MaxInFlight : Resume(i)
    \/ \E f \in DiskFiles : \E c \in Contents(f) : DiskWrite(f, c)
    \/ \E f \in DiskFiles : DiskUnlink(f)

Spec == Init /\ [][Next]_vars

(***************************************************************************)
(* Properties of the index under live events                               *)
(***************************************************************************)

\* The entities of file f a getAll of parser k returns in the index state
\* (c, scanned).
VisibleIn(k, f, c, scanned) ==
    SelectSeq(getAll(k, c, scanned, now), LAMBDA e : e.sourceFile = f)

Visible(k, f) == VisibleIn(k, f, cache, scannedFiles)

\* Name n has an entity of parser k (a common route included) outside file f.
DefinedElsewhere(k, n, f) ==
    LET all == getAll(k, cache, scannedFiles, now)
    IN  \E i \in 1..Len(all) : all[i].name = n /\ all[i].sourceFile # f

\* A handleFileChange of parser k for file f is suspended at its await.
InFlightIn(k, f, hs) == <<k, f>> \in Awaited(hs, 0)

InFlight(k, f) == InFlightIn(k, f, handlers)

\* C1: when the last index operation on a file is a handleFileDelete (no
\* handleFileChange for it started since), getAll returns no entity whose
\* sourceFile is that file and a lookup of a name with no entity outside the
\* file misses, also when a handleFileChange that was suspended at the
\* delete resumes afterwards.
C1_DeleteRemovesFile ==
    \A k \in KindSet, f \in Files :
        lastOp[k][f].op = "delete" =>
            /\ Visible(k, f) = <<>>
            /\ \A n \in Names :
                  ~DefinedElsewhere(k, n, f) => ~LookupHits(k, cache, scannedFiles, now, n)

\* A file was deleted while a handleFileChange for it was suspended, that
\* call has resumed and put the file back into scannedFiles, and a name of
\* the file has no entity elsewhere.
C1_Witness ==
    \E k \in KindSet, f \in Files :
        /\ lastOp[k][f].op = "delete"
        /\ handlers = <<>>
        /\ SetHas(scannedFiles[k], f)
        /\ disk[f] # Absent
        /\ \E n \in Names : ~DefinedElsewhere(k, n, f)

\* C2 as stated: once a content-changed event of a file is processed, the
\* file's index entries are the entities parsed from the document text that
\* triggered the event.
C2_IndexReflectsChangedContent ==
    \A k \in KindSet, f \in Files :
        (lastOp[k][f].op = "content" /\ ~InFlight(k, f)) =>
            Visible(k, f) = ParseResult(k, docs[f], f, DrupalRoot).entities

\* C3: once no handleFileChange of a file is suspended, the index holds for
\* the file the entities of the content the latest handleFileChange read,
\* also when that call started while an earlier one was suspended.
C3_LaterContentWins ==
    \A k \in KindSet, f \in Files :
        (lastOp[k][f].op \in {"content", "change"} /\ ~InFlight(k, f)) =>
            Visible(k, f) = expect[k][f]

\* Two handleFileChange calls of one file overlapped, the later one read a
\* different content than the earlier, and both have completed.
C3_Witness ==
    \E k \in KindSet, f \in Files :
        /\ lastOp[k][f].op \in {"content", "change"}
        /\ raced[k][f]
        /\ handlers = <<>>
        /\ Visible(k, f) = expect[k][f]
        /\ expect[k][f] # <<>>

\* C4 as stated: after startup (onInitialize has run its scans) no step
\* changes the index entry or the scanned state of a definition file whose
\* tier is not custom.
C4_NonCustomTierUntouched ==
    [][(initialized /\ ~ScanInFlight) =>
        \A k \in KindSet, f \in Files :
            determineSourceType(f, DrupalRoot) # "custom" =>
                /\ VisibleIn(k, f, cache', scannedFiles') = Visible(k, f)
                /\ SetHas(scannedFiles'[k], f) = SetHas(scannedFiles[k], f)]_vars

\* C5: a step in which a handleFileChange starts for a file that has a
\* stored list in the index and parses successfully ends with the new entities
\* in the index: the state at the suspension point, which is what any lookup
\* running there reads, is never the purged one.
C5_NoPurgedStateObservable ==
    [][\A k \in KindSet, f \in Files :
          (/\ lastOp'[k][f].n # lastOp[k][f].n
           /\ lastOp'[k][f].had
           /\ ParseResult(k, disk[f], f, DrupalRoot).stored)
          => LET new == ParseResult(k, disk[f], f, DrupalRoot).entities
             IN  /\ InFlightIn(k, f, handlers')
                 /\ VisibleIn(k, f, cache', scannedFiles') = new
                 /\ \A n \in Names :
                       LookupHits(k, cache', scannedFiles', now, n) <=>
                           \/ DefinedElsewhere(k, n, f)
                           \/ \E i \in 1..Len(new) : new[i].name = n]_vars

\* A handleFileChange is suspended for a file that had one entity and now
\* has the two entities of its edited content in the index.
C5_Witness ==
    \E k \in KindSet, f \in Files :
        /\ InFlight(k, f)
        /\ lastOp[k][f].op \in {"content", "change"}
        /\ Len(Visible(k, f)) = 2
        /\ Visible(k, f) = expect[k][f]


(***************************************************************************)
(* The functions of the parsers and providers, applied to given arguments  *)
(***************************************************************************)

\* The server before onInitialize: the state of the server while a function
\* is evaluated on its own.
IdleServer ==
    /\ initialized = FALSE
    /\ disk = [f \in Files |-> Absent]
    /\ docs = [f \in Files |-> Closed]
    /\ cache = << >>
    /\ now = 0
    /\ scannedFiles = [k \in KindSet |-> <<>>]
    /\ handlers = <<>>
    /\ lastOp = [k \in KindSet |-> [f \in Files |-> [op |-> "none", n |-> 0, had |-> FALSE, same |-> FALSE]]]
    /\ expect = [k \in KindSet |-> [f \in Files |-> <<>>]]
    /\ raced = [k \in KindSet |-> [f \in Files |-> FALSE]]
    /\ budget = 0

ServerUnchanged ==
    UNCHANGED <<initialized, disk, docs, cache, now, scannedFiles, handlers,
                lastOp, expect, raced, budget, phpcs>>

\* Tier classification: the Drupal roots, the directories below the root and
\* the file names the classification is applied to.
TierRoots == {<<"/", "w">>, <<"/", "s", "r", "v", "/", "c", "o", "r", "e", "/", "w">>}

TierDirs ==
    {<<"/", "m", "o", "d", "u", "l", "e", "s", "/", "c", "u", "s", "t", "o", "m", "/", "a">>,
     <<"/", "m", "o", "d", "u", "l", "e", "s", "/", "c", "o", "n", "t", "r", "i", "b", "/", "b">>,
     <<"/", "c", "o", "r", "e", "/", "m", "o", "d", "u", "l", "e", "s", "/", "s", "y", "s", "t", "e", "m">>,
     <<"/", "m", "o", "d", "u", "l", "e", "s", "/", "c", "u", "s", "t", "o", "m", "/", "a", "/", "c", "o", "r", "e">>,
     <<"/", "c", "o", "r", "e", "/", "m", "o", "d", "u", "l", "e", "s", "/", "c", "u", "s", "t", "o", "m", "/", "a">>,
     <<"/", "t", "h", "e", "m", "e", "s", "/", "t">>,
     <<"/", "m", "o", "d", "u", "l", "e", "s", "/", "c">>,
     <<"/", "c", "o", "r", "e">>,
     <<"/", "p", "r", "o", "f", "i", "l", "e", "s", "/", "p", "/", "m", "o", "d", "u", "l", "e", "s", "/", "c", "u", "s", "t", "o", "m", "/", "a">>,
     <<"/", "m", "o", "d", "u", "l", "e", "s", "/", "c", "u", "s", "t", "o", "m", "c", "o", "r", "e">>}

TierFileNames ==
    {<<"a", ".", "s", "e", "r", "v", "i", "c", "e", "s", ".", "y", "m", "l">>,
     <<"a", ".", "r", "o", "u", "t", "i", "n", "g", ".", "y", "m", "l">>,
     <<"a", ".", "l", "i", "n", "k", "s", ".", "m", "e", "n", "u", ".", "y", "m", "l">>}

TierInputs ==
    {[filePath |-> r \o d \o <<"/">> \o n, drupalRoot |-> r] :
        r \in TierRoots, d \in TierDirs, n \in TierFileNames}

InitTier ==
    /\ IdleServer
    /\ phpcs = None
    /\ pc = "ready"
    /\ input \in TierInputs
    /\ output = None

\* parseFile calls determineSourceType(filePath) for the file it parses.
Classify ==
    /\ pc = "ready"
    /\ pc' = "done"
    /\ output' = determineSourceType(input.filePath, input.drupalRoot)
    /\ UNCHANGED input
    /\ ServerUnchanged

NextTier == Classify

SpecTier == InitTier /\ [][NextTier]_vars

\* C6 as stated, the markers looked for in the path below the Drupal root: a
\* path that contains the core marker and the custom marker, in either
\* order, classifies as custom, and a path that contains only the core
\* marker classifies as core.
C6_CustomWinsOverCore ==
    pc = "done" =>
        LET relativePath == ReplaceFirstWithEmpty(input.filePath, input.drupalRoot)
        IN  /\ (Includes(relativePath, CORE_MARKER) /\ Includes(relativePath, CUSTOM_MARKER))
                  => output = "custom"
            /\ (Includes(relativePath, CORE_MARKER) /\ ~Includes(relativePath, CUSTOM_MARKER))
                  => output = "core"

(***************************************************************************)
(* Ranking of completion candidates                                        *)
(***************************************************************************)

TYPED_FOO == <<"f", "o", "o">>

RECURSIVE Pow10(_)
Pow10(w) == IF w = 0 THEN 1 ELSE 10 * Pow10(w - 1)

\* A name that starts with the typed text and goes on for n more characters.
LongName(n) == TYPED_FOO \o [i \in 1..n |-> "b"]

Cand(name, sourceType) == [name |-> name, sourceType |-> sourceType]

CAND_CUSTOM_FOO == Cand(<<"c", "u", "s", "t", "o", "m", ".", "f", "o", "o">>, "custom")
CAND_CONTRIB_FOO2 == Cand(<<"c", "o", "n", "t", "r", "i", "b", ".", "f", "o", "o", "2">>, "contrib")
CAND_CORE_FOOBAR == Cand(<<"c", "o", "r", "e", ".", "f", "o", "o", "b", "a", "r">>, "core")

\* The candidates the ranking is applied to, two at a time: the three of the
\* example, names that are the typed text, start with it, contain it or do
\* not, and two names whose remaining length has three and four digits.
RankPool ==
    {CAND_CUSTOM_FOO, CAND_CONTRIB_FOO2, CAND_CORE_FOOBAR,
     Cand(TYPED_FOO, "core"),
     Cand(<<"a", ".", "f", "o", "o">>, "custom"),
     Cand(<<"f", "o", "o", "b", "a", "r">>, "custom"),
     Cand(<<"F", "o", "o", "2">>, "contrib"),
     Cand(<<"b", "a", "r">>, "custom"),
     Cand(LongName(2 * Pow10(MATCH_QUALITY_WIDTH - 1)), "custom"),
     Cand(LongName(Pow10(MATCH_QUALITY_WIDTH)), "custom")}

TypedTexts == {<<>>, TYPED_FOO}

RankInputs ==
    {[kind |-> k, typedText |-> ty, a |-> a, b |-> b] :
        k \in KindSet, ty \in TypedTexts, a \in RankPool, b \in RankPool}

InitRank ==
    /\ IdleServer
    /\ phpcs = None
    /\ pc = "ready"
    /\ input \in {i \in RankInputs : i.a # i.b}
    /\ output = None

\* A completion request over an index that holds the two candidates: the
\* items offered, each with its sortText.
Score ==
    /\ pc = "ready"
    /\ pc' = "done"
    /\ output' = CompletionItems(input.kind, <<input.a, input.b>>, input.typedText)
    /\ UNCHANGED input
    /\ ServerUnchanged

NextRank == Score

SpecRank == InitRank /\ [][NextRank]_vars

\* The place of a tier in the order custom > contrib > core > unknown.
TierRank(sourceType) ==
    CASE sourceType = "custom" -> 0
      [] sourceType = "contrib" -> 1
      [] sourceType = "core" -> 2
      [] OTHER -> 3

\* C7 as stated: of two offered candidates of different tiers, the one of
\* the higher tier has the smaller sort key, whatever the typed text.
C7_TierIsPrimaryKey ==
    (pc = "done" /\ Len(output) = 2) =>
        \A i, j \in 1..2 :
            TierRank(output[i].cand.sourceType) < TierRank(output[j].cand.sourceType)
                => StringLess(output[i].sortText, output[j].sortText)

\* How a name matches the typed text, in the comparison its provider uses
\* (services as written, routes and links ignoring case): 0 exact, 1 prefix,
\* 2 substring only, 3 no match.
MatchBand(kind, name, typedText) ==
    LET n == IF kind = "service" THEN name ELSE ToLowerCase(name)
        ty == IF kind = "service" THEN typedText ELSE ToLowerCase(typedText)
    IN  IF n = ty THEN 0
        ELSE IF StartsWith(n, ty) THEN 1
        ELSE IF Includes(n, ty) THEN 2
        ELSE 3

\* The order C8 states between two candidates of one tier.
RanksBefore(kind, a, b, typedText) ==
    LET bandA == MatchBand(kind, a.name, typedText)
        bandB == MatchBand(kind, b.name, typedText)
    IN  \/ bandA < bandB
        \/ bandA = 1 /\ bandB = 1 /\ Len(a.name) < Len(b.name)
        \/ /\ bandA = bandB
           /\ bandA = 1 => Len(a.name) = Len(b.name)
           /\ StringLess(a.name, b.name)

\* C8 as stated: for a non-empty typed text and two offered candidates of
\* one tier, an exact match sorts before a prefix match, prefix matches by
\* ascending remaining length, then substring matches, then the others, and
\* candidates equal on all of that by name.
C8_OrderWithinTier ==
    (pc = "done" /\ Len(output) = 2 /\ input.typedText # <<>>) =>
        \A i, j \in 1..2 :
            (/\ output[i].cand.sourceType = output[j].cand.sourceType
             /\ RanksBefore(input.kind, output[i].cand, output[j].cand, input.typedText))
                => StringLess(output[i].sortText, output[j].sortText)

\* The candidate sets whose ranking is repeated over every iteration order:
\* the subsets of the example's three candidates and two more of the custom
\* tier, one of them in the same match band as custom.foo.
RankSetPool ==
    {CAND_CUSTOM_FOO, CAND_CONTRIB_FOO2, CAND_CORE_FOOBAR,
     Cand(<<"a", ".", "f", "o", "o">>, "custom"),
     Cand(<<"f", "o", "o", "b", "a", "r">>, "custom")}

ExampleCands == {CAND_CUSTOM_FOO, CAND_CONTRIB_FOO2, CAND_CORE_FOOBAR}

InitRankSet ==
    /\ IdleServer
    /\ phpcs = None
    /\ pc = "ready"
    /\ input \in {[kind |-> k, typedText |-> ty, cands |-> S] :
                    k \in KindSet, ty \in TypedTexts, S \in SUBSET RankSetPool}
    /\ output = None

\* A completion request, over some iteration order of the index: the offered
\* items in that order, each with its sortText.  The request can be
\* repeated.
Rank ==
    /\ pc' = "done"
    /\ \E order \in Orders(input.cands) :
          output' = CompletionItems(input.kind, order, input.typedText)
    /\ UNCHANGED input
    /\ ServerUnchanged

NextRankSet == Rank

SpecRankSet == InitRankSet /\ [][NextRankSet]_vars

\* C9: the items of a repeated request over the same candidates, in
\* whatever iteration order, ordered by sortText give the sequence those of
\* the request before gave; and for custom.foo, contrib.foo2 and core.foobar
\* with typed text foo, custom.foo is first in that order.
C9_RankingDeterministic ==
    /\ [][pc = "done" => OrderBySortText(output') = OrderBySortText(output)]_vars
    /\ [](  (pc = "done" /\ input.cands = ExampleCands /\ input.typedText = TYPED_FOO)
           => (Len(output) = 3 /\ OrderBySortText(output)[1].cand = CAND_CUSTOM_FOO))

\* The example was requested over an index that iterates core.foobar first:
\* the three candidates are returned in that order, and custom.foo is first
\* once they are ordered by sortText.
C9_Witness ==
    /\ pc = "done"
    /\ input.typedText = TYPED_FOO
    /\ input.cands = ExampleCands
    /\ Len(output) = 3
    /\ output[1].cand = CAND_CORE_FOOBAR
    /\ OrderBySortText(output)[1].cand = CAND_CUSTOM_FOO

(***************************************************************************)
(* Diagnostics: the regular expressions of the validators                  *)
(***************************************************************************)

\* \s, over the characters of the model
SpaceChars == {" "}

\* ['"]
QuoteChars == {"'", "\""}

\* The characters from lo to hi (a range lo-hi of a character class)
CharRange(lo, hi) == {Chars[i] : i \in Ord(lo)..Ord(hi)}

\* [a-zA-Z0-9_.], which is also [a-z0-9._] under the i flag
NameChars == CharRange("a", "z") \cup CharRange("A", "Z") \cup CharRange("0", "9") \cup {"_", "."}

\* [a-z_]
KeyChars == CharRange("a", "z") \cup {"_"}

\* [^,], over the characters of the model
NotCommaChars == {Chars[i] : i \in 1..Len(Chars)} \ {","}

\* The position after the longest run of characters of the class that starts
\* at position i of s (a greedy class*).
SkipWhile(s, i, class) ==
    IF i > Len(s) THEN i
    ELSE CHOOSE j \in i..(Len(s) + 1) :
            /\ \A k \in i..(j - 1) : s[k] \in class
            /\ j = Len(s) + 1 \/ s[j] \notin class

\* The position after an optional quote at position i (['"]?).
SkipQuote(s, i) == IF i <= Len(s) /\ s[i] \in QuoteChars THEN i + 1 ELSE i

\* A match: index..end - 1 is match[0], from..to - 1 is match[1].
NoMatch == [found |-> FALSE, index |-> 0, end |-> 0, from |-> 0, to |-> 0]
Match(index, end, from, to) ==
    [found |-> TRUE, index |-> index, end |-> end, from |-> from, to |-> to]

\* ([a-zA-Z0-9_.]+)['"]?\s*$ with the name starting at position from and
\* ending before position to
MatchNameToEnd(line, from, to) ==
    IF to > from /\ SkipWhile(line, SkipQuote(line, to), SpaceChars) = Len(line) + 1
    THEN Match(1, Len(line) + 1, from, to)
    ELSE NoMatch

\* ['"]?([a-zA-Z0-9_.]+)['"]?\s*$ from position i, which is 0 when the part
\* of the pattern before it did not match
MatchValueToEnd(line, i) ==
    IF i = 0 THEN NoMatch
    ELSE MatchNameToEnd(line, SkipQuote(line, i),
                        SkipWhile(line, SkipQuote(line, i), NameChars))

\* (?:key1|key2|...):\s* at position i: the position after it, or 0
AfterKey(line, keys, i) ==
    IF \E n \in 1..Len(keys) : OccursAt(line, keys[n] \o <<":">>, i)
    THEN SkipWhile(line,
             i + 1 + Len(keys[CHOOSE n \in 1..Len(keys) : OccursAt(line, keys[n] \o <<":">>, i)]),
             SpaceChars)
    ELSE 0

\* line.match(/^\s*(?:key1|key2|...):\s*['"]?([a-zA-Z0-9_.]+)['"]?\s*$/)
MatchKeyLine(line, keys) ==
    MatchValueToEnd(line, AfterKey(line, keys, SkipWhile(line, 1, SpaceChars)))

\* -\s* at position i: the position after it, or 0
AfterDash(line, i) ==
    IF OccursAt(line, <<"-">>, i) THEN SkipWhile(line, i + 1, SpaceChars) ELSE 0

\* line.match(/^\s*-\s*['"]?([a-zA-Z0-9_.]+)['"]?\s*$/)
MatchListItem(line) ==
    MatchValueToEnd(line, AfterDash(line, SkipWhile(line, 1, SpaceChars)))

APPEARS_ON_KEY == <<"a", "p", "p", "e", "a", "r", "s", "_", "o", "n">>

\* /^\s*appears_on:\s*$/.test(line)
IsAppearsOnHeader(line) ==
    AfterKey(line, <<APPEARS_ON_KEY>>, SkipWhile(line, 1, SpaceChars)) = Len(line) + 1

\* [a-z_]+: from position i on
KeyAt(line, i) ==
    SkipWhile(line, i, KeyChars) > i /\ OccursAt(line, <<":">>, SkipWhile(line, i, KeyChars))

\* /^\s*[a-z_]+:\s*/.test(line) && !line.trim().startsWith('-')
IsOtherKeyLine(line) ==
    /\ KeyAt(line, SkipWhile(line, 1, SpaceChars))
    /\ ~OccursAt(line, <<"-">>, SkipWhile(line, 1, SpaceChars))

\* The match of /@([a-zA-Z0-9_.]+)/ at position i, if there is one.
MatchAtSign(line, i) ==
    IF OccursAt(line, <<"@">>, i) /\ i + 1 <= Len(line) /\ line[i + 1] \in NameChars
    THEN Match(i, SkipWhile(line, i + 1, NameChars), i + 1, SkipWhile(line, i + 1, NameChars))
    ELSE NoMatch

\* [a-z0-9._]
LowerNameChars == CharRange("a", "z") \cup CharRange("0", "9") \cup {"_", "."}

\* The match of /@([a-z0-9._]+)/ at position i, if there is one.
MatchAtSignLower(line, i) ==
    IF OccursAt(line, <<"@">>, i) /\ i + 1 <= Len(line) /\ line[i + 1] \in LowerNameChars
    THEN Match(i, SkipWhile(line, i + 1, LowerNameChars), i + 1,
               SkipWhile(line, i + 1, LowerNameChars))
    ELSE NoMatch

\* A call pattern of the PHP validator, all under the flags gi:
\*   (?:head1|head2|...)\s*\(\s*['"]([a-z0-9._]+)            plain
\*   ...\s*\(\s*['"]([a-z0-9._]+)['"]?                        closing: TRUE
\*   ...\s*\([^,]+,\s*['"]([a-z0-9._]+)                       second: TRUE
\* One global regular expression of the validators is such a pattern or the
\* @name pattern of validateServices.
CallPattern(heads, second, closing) ==
    [type |-> "call", heads |-> heads, second |-> second, closing |-> closing,
     required |-> FALSE]

\* A call pattern of the extractor, whose closing quote is not optional:
\*   (?:head1|head2|...)\s*\(\s*['"]([a-z0-9._]+)['"]
ClosedCallPattern(heads) ==
    [type |-> "call", heads |-> heads, second |-> FALSE, closing |-> TRUE,
     required |-> TRUE]

AT_SIGN_PATTERN ==
    [type |-> "at", heads |-> <<>>, second |-> FALSE, closing |-> FALSE, required |-> FALSE]

\* /@([a-z0-9._]+)/g of the YAML extractor, which has no i flag
AT_SIGN_LOWER_PATTERN ==
    [type |-> "at_lower", heads |-> <<>>, second |-> FALSE, closing |-> FALSE,
     required |-> FALSE]

\* ([a-z0-9._]+)['"]?, ([a-z0-9._]+)['"] or ([a-z0-9._]+) with the name
\* from..to - 1
CallName(line, pattern, index, from, to) ==
    IF to > from /\ (pattern.required => SkipQuote(line, to) > to)
    THEN Match(index, IF pattern.closing THEN SkipQuote(line, to) ELSE to, from, to)
    ELSE NoMatch

\* ['"]([a-z0-9._]+)... at position i, which is 0 when the part of the
\* pattern before it did not match
CallArgument(line, pattern, index, i) ==
    IF i >= 1 /\ i <= Len(line) /\ line[i] \in QuoteChars
    THEN CallName(line, pattern, index, i + 1, SkipWhile(line, i + 1, NameChars))
    ELSE NoMatch

\* [^,]+,\s* with the run of [^,] being i..comma - 1: the position after it,
\* or 0
AfterComma(line, i, comma) ==
    IF comma > i /\ OccursAt(line, <<",">>, comma)
    THEN SkipWhile(line, comma + 1, SpaceChars)
    ELSE 0

\* \(\s* or \([^,]+,\s* at position i: the position after it, or 0
AfterOpen(line, pattern, i) ==
    IF ~OccursAt(line, <<"(">>, i) THEN 0
    ELSE IF pattern.second
         THEN AfterComma(line, i + 1, SkipWhile(line, i + 1, NotCommaChars))
         ELSE SkipWhile(line, i + 1, SpaceChars)

\* (?:head1|head2|...)\s* at position i of the lower-cased line: the position
\* after it, or 0
AfterHead(lower, heads, i) ==
    IF \E n \in 1..Len(heads) : OccursAt(lower, heads[n], i)
    THEN SkipWhile(lower,
             i + Len(heads[CHOOSE n \in 1..Len(heads) : OccursAt(lower, heads[n], i)]),
             SpaceChars)
    ELSE 0

\* The match of a call pattern at position i, if there is one; lower is the
\* lower-cased line, which stands for the i flag.
MatchCall(line, lower, i, pattern) ==
    IF AfterHead(lower, pattern.heads, i) = 0 THEN NoMatch
    ELSE CallArgument(line, pattern, i,
                      AfterOpen(line, pattern, AfterHead(lower, pattern.heads, i)))

MatchAt(line, lower, i, pattern) ==
    IF pattern.type = "at" THEN MatchAtSign(line, i)
    ELSE IF pattern.type = "at_lower" THEN MatchAtSignLower(line, i)
    ELSE MatchCall(line, lower, i, pattern)

\* The least element of a set of positions
MinOf(S) == CHOOSE j \in S : \A k \in S : j <= k

\* The leftmost match among the matches that start at the positions starts
MatchAtFirst(line, lower, pattern, starts) ==
    IF starts = {} THEN NoMatch ELSE MatchAt(line, lower, MinOf(starts), pattern)

\* pattern.exec(line) with lastIndex i - 1: the leftmost match from position
\* i on
Exec(line, lower, i, pattern) ==
    MatchAtFirst(line, lower, pattern,
                 {j \in i..Len(line) : MatchAt(line, lower, j, pattern).found})

\* line.matchAll(pattern), and the loop while ((match = pattern.exec(line))
\* !== null): the matches from position i on, each search starting where the
\* previous match ended.
RECURSIVE ExecFrom(_, _, _, _)
ExecNext(line, lower, pattern, m) ==
    IF m.found THEN <<m>> \o ExecFrom(line, lower, m.end, pattern) ELSE <<>>

ExecFrom(line, lower, i, pattern) == ExecNext(line, lower, pattern, Exec(line, lower, i, pattern))

ExecAll(line, pattern) == ExecFrom(line, ToLowerCase(line), 1, pattern)

\* match[1] and match[0]
Group1(line, m) == SubSeq(line, m.from, m.to - 1)
Group0(line, m) == SubSeq(line, m.index, m.end - 1)

(***************************************************************************)
(* Diagnostics: YamlDiagnosticProvider                                     *)
(***************************************************************************)

\* A diagnostic: the kind stands for its message ("Service '..' not found",
\* "Route '..' not found", "Parent link '..' not found", "Route '..' not found
\* in appears_on"); line and characters are 0-based as in the protocol.
Diagnostic(kind, name, line, startChar, endChar) ==
    [kind |-> kind, name |-> name, line |-> line, start |-> startChar, end |-> endChar]

\* The diagnostic for the text found in line number i (1-based) about name:
\* startChar = line.indexOf(found), endChar = startChar + found.length
DiagnosticAt(kind, name, line, i, found) ==
    Diagnostic(kind, name, i - 1, IndexOf(line, found) - 1,
               IndexOf(line, found) - 1 + Len(found))

\* Set.prototype.has over a list of names
Has(names, name) == \E i \in 1..Len(names) : names[i] = name

LINKS_TASK_SUFFIX == LINKS_INFIX \o <<"t", "a", "s", "k", ".", "y", "m", "l">>
LINKS_MENU_SUFFIX == LINKS_INFIX \o <<"m", "e", "n", "u", ".", "y", "m", "l">>
LINKS_ACTION_SUFFIX == LINKS_INFIX \o <<"a", "c", "t", "i", "o", "n", ".", "y", "m", "l">>
LINKS_CONTEXTUAL_SUFFIX == LINKS_INFIX \o <<"c", "o", "n", "t", "e", "x", "t", "u", "a", "l", ".", "y", "m", "l">>

\* YamlDiagnosticProvider.canProvide
YamlDiagnosticProvider_canProvide(document) ==
    \/ EndsWith(document.uri, SERVICES_SUFFIX)
    \/ EndsWith(document.uri, LINKS_TASK_SUFFIX)
    \/ EndsWith(document.uri, LINKS_MENU_SUFFIX)
    \/ EndsWith(document.uri, LINKS_ACTION_SUFFIX)
    \/ EndsWith(document.uri, LINKS_CONTEXTUAL_SUFFIX)

PARENT_KEY == <<"p", "a", "r", "e", "n", "t">>
ROUTE_KEYS == <<<<"r", "o", "u", "t", "e", "_", "n", "a", "m", "e">>, <<"r", "o", "u", "t", "e">>, <<"b", "a", "s", "e", "_", "r", "o", "u", "t", "e">>>>

\* The diagnostics for a line matched as a whole (line.match): none when
\* the line does not match or the name is available.
MissingInLine(kind, line, i, m, available) ==
    IF m.found /\ ~Has(available, Group1(line, m))
    THEN <<DiagnosticAt(kind, Group1(line, m), line, i, Group1(line, m))>>
    ELSE <<>>

\* The diagnostics for the @name matches ms of a line that are not available.
MissingArguments(line, i, ms, available) ==
    [j \in 1..Len(ms) |->
        DiagnosticAt("service", Group1(line, ms[j]), line, i, Group0(line, ms[j]))]

\* The matches whose name is not available.
Unavailable(line, ms, available) ==
    SelectSeq(ms, LAMBDA m : ~Has(available, Group1(line, m)))

\* validateServices for one line: the parent reference, then the @name ones
validateServicesLine(line, i, availableServices) ==
    MissingInLine("service", line, i, MatchKeyLine(line, <<PARENT_KEY>>), availableServices)
    \o MissingArguments(line, i,
           Unavailable(line, ExecAll(line, AT_SIGN_PATTERN), availableServices),
           availableServices)

\* YamlDiagnosticProvider.validateServices, availableServices given
validateServicesLines(lines, availableServices) ==
    Flatten([i \in 1..Len(lines) |-> validateServicesLine(lines[i], i, availableServices)])

\* YamlDiagnosticProvider.validateServices
validateServices(lines, c, scanned, t) ==
    validateServicesLines(lines, getAllServiceNames(c, scanned, t))

DYNAMIC_PREFIXES == <<<<"v", "i", "e", "w", ".">>, <<"r", "e", "s", "t", ".">>, <<"j", "s", "o", "n", "a", "p", "i", ".">>, <<"l", "a", "y", "o", "u", "t", "_", "b", "u", "i", "l", "d", "e", "r", ".">>, <<"f", "i", "e", "l", "d", "_", "u", "i", ".">>>>

isDynamicRoutePatternNever(routeName) == FALSE

\* YamlDiagnosticProvider.isDynamicRoutePattern
isDynamicRoutePattern(routeName) ==
    \E i \in 1..Len(DYNAMIC_PREFIXES) : StartsWith(routeName, DYNAMIC_PREFIXES[i])

\* The diagnostics for a line matched as a route reference: none when the
\* line does not match, the route exists or its name is a dynamic pattern.
MissingRouteInLine(kind, line, i, m, availableRoutes) ==
    IF ~m.found THEN <<>>
    ELSE IF Has(availableRoutes, Group1(line, m)) THEN <<>>
    ELSE IF isDynamicRoutePattern(Group1(line, m)) THEN <<>>
    ELSE <<DiagnosticAt(kind, Group1(line, m), line, i, Group1(line, m))>>

\* YamlDiagnosticProvider.validateRoutes, availableRoutes given
validateRoutesLines(lines, availableRoutes) ==
    Flatten([i \in 1..Len(lines) |->
        MissingRouteInLine("route", lines[i], i, MatchKeyLine(lines[i], ROUTE_KEYS),
                           availableRoutes)])

\* YamlDiagnosticProvider.validateRoutes
validateRoutes(lines, c, scanned, t) ==
    validateRoutesLines(lines, getAllRouteNames(c, scanned, t))

\* YamlDiagnosticProvider.validateParentLinks, availableLinks given
validateParentLinksLines(lines, availableLinks) ==
    Flatten([i \in 1..Len(lines) |->
        MissingInLine("parent", lines[i], i, MatchKeyLine(lines[i], <<PARENT_KEY>>),
                      availableLinks)])

\* YamlDiagnosticProvider.validateParentLinks
validateParentLinks(lines, c, scanned, t) ==
    validateParentLinksLines(lines, getAllLinkNames(c, scanned, t))

\* The flag inAppearsOn of validateAppearsOn at the moment line i is tested
\* for a list item, the lines before it having been walked.
RECURSIVE inAppearsOn(_, _)
inAppearsOn(lines, i) ==
    IF i = 0 THEN FALSE
    ELSE IF IsAppearsOnHeader(lines[i]) THEN TRUE
    ELSE IF IsOtherKeyLine(lines[i]) THEN FALSE
    ELSE inAppearsOn(lines, i - 1)

\* validateAppearsOn for line i
validateAppearsOnLine(lines, i, availableRoutes) ==
    IF IsAppearsOnHeader(lines[i]) THEN <<>>
    ELSE IF ~inAppearsOn(lines, i) THEN <<>>
    ELSE MissingRouteInLine("appears_on", lines[i], i, MatchListItem(lines[i]),
                            availableRoutes)

\* YamlDiagnosticProvider.validateAppearsOn, availableRoutes given
validateAppearsOnLines(lines, availableRoutes) ==
    Flatten([i \in 1..Len(lines) |-> validateAppearsOnLine(lines, i, availableRoutes)])

\* YamlDiagnosticProvider.validateAppearsOn
validateAppearsOn(lines, c, scanned, t) ==
    validateAppearsOnLines(lines, getAllRouteNames(c, scanned, t))

\* YamlDiagnosticProvider.provideDiagnostics
YamlDiagnosticProvider_provideDiagnostics(document, c, scanned, t) ==
    (IF EndsWith(document.uri, SERVICES_SUFFIX)
     THEN validateServices(document.lines, c, scanned, t) ELSE <<>>)
    \o (IF Includes(document.uri, LINKS_INFIX)
        THEN validateRoutes(document.lines, c, scanned, t)
             \o validateParentLinks(document.lines, c, scanned, t)
             \o validateAppearsOn(document.lines, c, scanned, t)
        ELSE <<>>)

(***************************************************************************)
(* Diagnostics: PhpDiagnosticProvider                                      *)
(***************************************************************************)

\* PhpDiagnosticProvider.canProvide
PhpDiagnosticProvider_canProvide(document) ==
    document.languageId = "php" \/ EndsWith(document.uri, PHP_SUFFIX)

\* /::service\s*\(\s*['"]([a-z0-9._]+)['"]?/gi
servicePattern == CallPattern(<<<<":", ":", "s", "e", "r", "v", "i", "c", "e">>>>, FALSE, TRUE)

\* /(?:\$this|\$container|\$this->container)->get\s*\(\s*['"]([a-z0-9._]+)['"]?/gi
getPattern ==
    CallPattern(<<<<"$", "t", "h", "i", "s", "-", ">", "g", "e", "t">>, <<"$", "c", "o", "n", "t", "a", "i", "n", "e", "r", "-", ">", "g", "e", "t">>, <<"$", "t", "h", "i", "s", "-", ">", "c", "o", "n", "t", "a", "i", "n", "e", "r", "-", ">", "g", "e", "t">>>>, FALSE, TRUE)

\* /Url::fromRoute\s*\(\s*['"]([a-z0-9._]+)/gi
urlPattern == CallPattern(<<<<"u", "r", "l", ":", ":", "f", "r", "o", "m", "r", "o", "u", "t", "e">>>>, FALSE, FALSE)

\* /(?:\$this|\$response|\$form_state)->(?:redirect|setRedirect)\s*\(\s*['"]([a-z0-9._]+)/gi
redirectPattern ==
    CallPattern(<<<<"$", "t", "h", "i", "s", "-", ">", "r", "e", "d", "i", "r", "e", "c", "t">>, <<"$", "t", "h", "i", "s", "-", ">", "s", "e", "t", "r", "e", "d", "i", "r", "e", "c", "t">>,
                  <<"$", "r", "e", "s", "p", "o", "n", "s", "e", "-", ">", "r", "e", "d", "i", "r", "e", "c", "t">>, <<"$", "r", "e", "s", "p", "o", "n", "s", "e", "-", ">", "s", "e", "t", "r", "e", "d", "i", "r", "e", "c", "t">>,
                  <<"$", "f", "o", "r", "m", "_", "s", "t", "a", "t", "e", "-", ">", "r", "e", "d", "i", "r", "e", "c", "t">>, <<"$", "f", "o", "r", "m", "_", "s", "t", "a", "t", "e", "-", ">", "s", "e", "t", "r", "e", "d", "i", "r", "e", "c", "t">>>>, FALSE, FALSE)

\* /Link::createFromRoute\s*\([^,]+,\s*['"]([a-z0-9._]+)/gi
linkPattern == CallPattern(<<<<"l", "i", "n", "k", ":", ":", "c", "r", "e", "a", "t", "e", "f", "r", "o", "m", "r", "o", "u", "t", "e">>>>, TRUE, FALSE)

\* results.push({ name, start, end }) with end = start + name.length
CallResultAt(name, start) == [name |-> name, start |-> start, end |-> start + Len(name)]

\* The result for one match: start = match.index + fullMatch.indexOf(name),
\* 0-based
CallResult(line, m) ==
    CallResultAt(Group1(line, m),
                 (m.index - 1) + (IndexOf(Group0(line, m), Group1(line, m)) - 1))

\* The results for the matches ms
CallResultsOf(line, ms) == [j \in 1..Len(ms) |-> CallResult(line, ms[j])]

\* The results of one exec loop
CallResults(line, pattern) == CallResultsOf(line, ExecAll(line, pattern))

\* PhpDiagnosticProvider.extractServiceCalls
extractServiceCalls(line) ==
    CallResults(line, servicePattern) \o CallResults(line, getPattern)

\* PhpDiagnosticProvider.extractRouteCalls
extractRouteCalls(line) ==
    CallResults(line, urlPattern) \o CallResults(line, redirectPattern)
        \o CallResults(line, linkPattern)

\* BaseDiagnosticProvider.serviceExists
serviceExists(c, scanned, t, serviceName) == getService(c, scanned, t, serviceName) # <<>>

\* PhpDiagnosticProvider.routeExists
routeExists(c, scanned, t, routeName) == Has(getAllRouteNames(c, scanned, t), routeName)

\* PhpDiagnosticProvider.isDynamicRoutePattern
PhpDiagnosticProvider_isDynamicRoutePattern(routeName) ==
    \E i \in 1..Len(DYNAMIC_PREFIXES) : StartsWith(routeName, DYNAMIC_PREFIXES[i])

\* createServiceNotFoundDiagnostic / createRouteNotFoundDiagnostic for the
\* results of line number lineNum (1-based)
NotFoundDiagnostics(kind, lineNum, results) ==
    [j \in 1..Len(results) |->
        Diagnostic(kind, results[j].name, lineNum - 1, results[j].start, results[j].end)]

\* PhpDiagnosticProvider.provideDiagnostics for one line: the services, then
\* the routes
provideDiagnosticsLine(line, lineNum, c, scanned, t) ==
    NotFoundDiagnostics("service", lineNum,
        SelectSeq(extractServiceCalls(line),
                  LAMBDA m : ~serviceExists(c, scanned, t, m.name)))
    \o NotFoundDiagnostics("route", lineNum,
        SelectSeq(extractRouteCalls(line),
                  LAMBDA m : /\ ~routeExists(c, scanned, t, m.name)
                             /\ ~PhpDiagnosticProvider_isDynamicRoutePattern(m.name)))

\* PhpDiagnosticProvider.provideDiagnostics, the style checker being disabled
PhpDiagnosticProvider_provideDiagnostics(document, c, scanned, t) ==
    Flatten([lineNum \in 1..Len(document.lines) |->
        provideDiagnosticsLine(document.lines[lineNum], lineNum, c, scanned, t)])

(***************************************************************************)
(* Diagnostics: the request handler                                        *)
(***************************************************************************)

\* A variant of the handler that keeps the diagnostics of its previous pass
\* for a document whose lines are those of that pass.
onDiagnosticsKeepEarlier(document, c, scanned, t) ==
    IF ~isCustomCode(document.uri) THEN <<>>
    ELSE IF pc # "ready" /\ input.document.uri = document.uri
                         /\ input.document.lines = document.lines
    THEN output
    ELSE (IF YamlDiagnosticProvider_canProvide(document)
          THEN YamlDiagnosticProvider_provideDiagnostics(document, c, scanned, t)
          ELSE <<>>)
         \o (IF PhpDiagnosticProvider_canProvide(document)
             THEN PhpDiagnosticProvider_provideDiagnostics(document, c, scanned, t)
             ELSE <<>>)

\* connection.languages.diagnostics.on: nothing for a document outside the
\* custom code; otherwise the results of the providers that can provide, in
\* the order of their registration.
onDiagnostics(document, c, scanned, t) ==
    IF ~isCustomCode(document.uri) THEN <<>>
    ELSE (IF YamlDiagnosticProvider_canProvide(document)
          THEN YamlDiagnosticProvider_provideDiagnostics(document, c, scanned, t)
          ELSE <<>>)
         \o (IF PhpDiagnosticProvider_canProvide(document)
             THEN PhpDiagnosticProvider_provideDiagnostics(document, c, scanned, t)
             ELSE <<>>)

(***************************************************************************)
(* Diagnostics: the documents of the model and the specification           *)
(***************************************************************************)

\* The longest document of the model, in lines.
MaxLines == 2

NAME_VIEW_Y == <<"v", "i", "e", "w", ".", "y">>
NAME_ENTITY_NODE_CANONICAL == COMMON_ENTITY_ROUTES[1]

\* The names the documents refer to: x is defined in the workspace, y and
\* view.y are not, entity.node.canonical is a common entity route.
RefNames == {NAME_X, NAME_Y, NAME_VIEW_Y, NAME_ENTITY_NODE_CANONICAL}

LineSpec(form, names) == [form |-> form, names |-> names]

\* The lines of a .services.yml document.
ServiceLines ==
    {LineSpec("svc_parent", <<n>>) : n \in RefNames}
    \cup {LineSpec("svc_arguments", ns) :
            ns \in {<<NAME_Y, NAME_Y>>, <<NAME_Y, NAME_X>>, <<NAME_VIEW_Y, NAME_Y>>}}
    \cup {LineSpec("svc_class", <<>>)}

\* The lines of a .links.*.yml document.
LinkLines ==
    {LineSpec("route_name", <<n>>) : n \in RefNames}
    \cup {LineSpec("base_route", <<NAME_Y>>)}
    \cup {LineSpec("link_parent", <<n>>) : n \in {NAME_X, NAME_Y}}
    \cup {LineSpec("appears_on", <<>>)}
    \cup {LineSpec("item", <<n>>) : n \in {NAME_X, NAME_Y, NAME_VIEW_Y}}
    \cup {LineSpec("weight", <<>>)}

\* The lines of a PHP document.
PhpLines ==
    {LineSpec("service", <<n>>) : n \in {NAME_X, NAME_Y, NAME_VIEW_Y}}
    \cup {LineSpec("get", <<NAME_Y>>)}
    \cup {LineSpec("fromRoute", <<n>>) : n \in RefNames}
    \cup {LineSpec("redirect", ns) : ns \in {<<NAME_Y, NAME_Y>>, <<NAME_VIEW_Y, NAME_Y>>}}
    \cup {LineSpec("createFromRoute", <<NAME_Y>>)}
    \cup {LineSpec("return", <<>>)}

\* The text of a line.
Render(spec) ==
    LET n == spec.names
    IN  CASE spec.form = "svc_parent" -> <<" ", " ", " ", " ", "p", "a", "r", "e", "n", "t", ":", " ">> \o n[1]
          [] spec.form = "svc_arguments" ->
                <<" ", " ", " ", " ", "a", "r", "g", "u", "m", "e", "n", "t", "s", ":", " ", "[", "'", "@">> \o n[1] \o <<"'", ",", " ", "'", "@">> \o n[2] \o <<"'", "]">>
          [] spec.form = "svc_class" -> <<" ", " ", " ", " ", "c", "l", "a", "s", "s", ":", " ", "A">>
          [] spec.form = "route_name" -> <<" ", " ", "r", "o", "u", "t", "e", "_", "n", "a", "m", "e", ":", " ">> \o n[1]
          [] spec.form = "base_route" -> <<" ", " ", "b", "a", "s", "e", "_", "r", "o", "u", "t", "e", ":", " ", "'">> \o n[1] \o <<"'">>
          [] spec.form = "link_parent" -> <<" ", " ", "p", "a", "r", "e", "n", "t", ":", " ">> \o n[1]
          [] spec.form = "appears_on" -> <<" ", " ", "a", "p", "p", "e", "a", "r", "s", "_", "o", "n", ":">>
          [] spec.form = "item" -> <<" ", " ", " ", " ", "-", " ">> \o n[1]
          [] spec.form = "weight" -> <<" ", " ", "w", "e", "i", "g", "h", "t", ":", " ", "0">>
          [] spec.form = "service" -> <<"$", "s", " ", "=", " ", "\\", "D", "r", "u", "p", "a", "l", ":", ":", "s", "e", "r", "v", "i", "c", "e", "(", "'">> \o n[1] \o <<"'", ")">>
          [] spec.form = "get" -> <<"$", "s", " ", "=", " ", "$", "t", "h", "i", "s", "-", ">", "c", "o", "n", "t", "a", "i", "n", "e", "r", "-", ">", "g", "e", "t", "(", "\"">> \o n[1] \o <<"\"", ")">>
          [] spec.form = "fromRoute" -> <<"$", "u", " ", "=", " ", "U", "r", "l", ":", ":", "f", "r", "o", "m", "R", "o", "u", "t", "e", "(", "'">> \o n[1] \o <<"'", ")">>
          [] spec.form = "redirect" ->
                <<"$", "t", "h", "i", "s", "-", ">", "r", "e", "d", "i", "r", "e", "c", "t", "(", "'">> \o n[1] \o <<"'", ")", ";", " ", "$", "f", "o", "r", "m", "_", "s", "t", "a", "t", "e", "-", ">", "s", "e", "t", "R", "e", "d", "i", "r", "e", "c", "t", "(", "'">>
                    \o n[2] \o <<"'", ")">>
          [] spec.form = "createFromRoute" ->
                <<"$", "l", " ", "=", " ", "L", "i", "n", "k", ":", ":", "c", "r", "e", "a", "t", "e", "F", "r", "o", "m", "R", "o", "u", "t", "e", "(", "$", "t", ",", " ", "'">> \o n[1] \o <<"'", ")">>
          [] spec.form = "return" -> <<"r", "e", "t", "u", "r", "n", " ", "$", "s">>

F_CUSTOM_MODULE == DrupalRoot \o CUSTOM_MARKER \o <<"a", "/", "a", ".", "m", "o", "d", "u", "l", "e">>

\* The documents a diagnostics request is made for: the uri, the language
\* identifier and the lines the document is made of.
DocumentKinds ==
    {[uri |-> F_CUSTOM_SVC, languageId |-> "yaml", pool |-> ServiceLines],
     [uri |-> F_CONTRIB_SVC, languageId |-> "yaml", pool |-> ServiceLines],
     [uri |-> F_CUSTOM_LINKS, languageId |-> "yaml", pool |-> LinkLines],
     [uri |-> F_CUSTOM_PHP, languageId |-> "php", pool |-> PhpLines],
     [uri |-> F_CUSTOM_MODULE, languageId |-> "php", pool |-> PhpLines]}

SeqsUpTo(S, n) == UNION {[1..k -> S] : k \in 0..n}

Documents ==
    UNION {{[uri |-> d.uri, languageId |-> d.languageId, specs |-> ss,
             lines |-> [i \in 1..Len(ss) |-> Render(ss[i])]] :
                ss \in SeqsUpTo(d.pool, MaxLines)} : d \in DocumentKinds}

\* No request has been made yet.
NoDocument == [uri |-> <<>>, languageId |-> "", specs |-> <<>>, lines |-> <<>>]

\* A diagnostics request for a document: the first request after the
\* initialization.
Diagnose ==
    /\ ProvidersRegistered
    /\ pc = "ready"
    /\ pc' = "done"
    /\ \E document \in Documents :
          /\ input' = document
          /\ output' = onDiagnostics(document, cache, scannedFiles, now)
    /\ ServerUnchanged

InitDiag ==
    /\ initialized = FALSE
    /\ disk = DiskAll
    /\ docs = [f \in Files |-> Closed]
    /\ cache = << >>
    /\ now = 0
    /\ scannedFiles = [k \in KindSet |-> <<>>]
    /\ handlers = <<>>
    /\ lastOp = [k \in KindSet |-> [f \in Files |-> [op |-> "none", n |-> 0, had |-> FALSE, same |-> FALSE]]]
    /\ expect = [k \in KindSet |-> [f \in Files |-> <<>>]]
    /\ raced = [k \in KindSet |-> [f \in Files |-> FALSE]]
    /\ budget = 0
    /\ phpcs = None
    /\ pc = "ready"
    /\ input = NoDocument
    /\ output = <<>>

NextDiag ==
    \/ Initialize
    \/ \E i \in 1..MaxInFlight : ScanStep(i)
    \/ Diagnose

SpecDiag == InitDiag /\ [][NextDiag]_vars

(***************************************************************************)
(* C10: allowlist and one diagnostic per occurrence                        *)
(***************************************************************************)

\* The references a line holds, as the document's author wrote them.
RefsOf(spec) ==
    LET n == spec.names
        Ref(kind, name) == [kind |-> kind, name |-> name]
    IN  CASE spec.form \in {"svc_parent", "service", "get"} -> <<Ref("service", n[1])>>
          [] spec.form = "svc_arguments" -> <<Ref("service", n[1]), Ref("service", n[2])>>
          [] spec.form \in {"route_name", "base_route", "item", "fromRoute", "createFromRoute"} ->
                <<Ref("route", n[1])>>
          [] spec.form = "redirect" -> <<Ref("route", n[1]), Ref("route", n[2])>>
          [] spec.form = "link_parent" -> <<Ref("link", n[1])>>
          [] OTHER -> <<>>

\* A list item is a reference when it is an item of an appears_on list: the
\* lines between the appears_on key and the item are items.
IsReferenceLine(specs, i) ==
    specs[i].form = "item" =>
        \E h \in 1..(i - 1) :
            /\ specs[h].form = "appears_on"
            /\ \A j \in (h + 1)..(i - 1) : specs[j].form = "item"

\* The number of textual occurrences of a reference of a kind to a name.
Occurrences(specs, kind, name) ==
    Len(SelectSeq(
        Flatten([i \in 1..Len(specs) |->
                    IF IsReferenceLine(specs, i) THEN RefsOf(specs[i]) ELSE <<>>]),
        LAMBDA r : r.kind = kind /\ r.name = name))

\* The kind of reference a diagnostic reports as not found.
ReportedKind(d) ==
    CASE d.kind = "service" -> "service"
      [] d.kind \in {"route", "appears_on"} -> "route"
      [] d.kind = "parent" -> "link"

\* The number of diagnostics about a reference of a kind to a name.
Reported(diagnostics, kind, name) ==
    Len(SelectSeq(diagnostics, LAMBDA d : ReportedKind(d) = kind /\ d.name = name))

\* The allowlist of known-dynamic name prefixes.
AllowlistPrefixes == {<<"v", "i", "e", "w", ".">>, <<"r", "e", "s", "t", ".">>, <<"j", "s", "o", "n", "a", "p", "i", ".">>, <<"l", "a", "y", "o", "u", "t", "_", "b", "u", "i", "l", "d", "e", "r", ".">>, <<"f", "i", "e", "l", "d", "_", "u", "i", ".">>}
HasAllowlistPrefix(name) == \E p \in AllowlistPrefixes : StartsWith(name, p)

\* The names that have an entry in the index of a kind.
IndexedNames(kind) ==
    LET entities == getAll(kind, cache, scannedFiles, now)
    IN  {entities[i].name : i \in 1..Len(entities)}

\* C10: in a diagnostics pass over a document of the custom code, a route
\* reference whose name is absent from the route index but starts with an
\* allowlist prefix produces no diagnostic, and the references (service,
\* route, parent link) to a name with neither an index entry nor an allowlist
\* prefix produce exactly one diagnostic per textual occurrence.
C10_AllowlistAndOnePerOccurrence ==
    (pc = "done" /\ isCustomCode(input.uri)) =>
        LET indexed == [k \in {"service", "route", "link"} |-> IndexedNames(k)]
        IN  /\ \A n \in RefNames :
                  (HasAllowlistPrefix(n) /\ n \notin indexed["route"]) =>
                      Reported(output, "route", n) = 0
            /\ \A k \in {"service", "route", "link"} : \A n \in RefNames :
                  (n \notin indexed[k] /\ ~HasAllowlistPrefix(n)) =>
                      Reported(output, k, n) = Occurrences(input.specs, k, n)

\* A pass over a links document that refers to the unknown route view.y and
\* to the unknown route y, the latter being reported.
C10_Witness ==
    /\ pc = "done"
    /\ isCustomCode(input.uri)
    /\ EndsWith(input.uri, LINKS_MENU_SUFFIX)
    /\ {NAME_VIEW_Y, NAME_Y} \cap IndexedNames("route") = {}
    /\ Occurrences(input.specs, "route", NAME_VIEW_Y) >= 1
    /\ Occurrences(input.specs, "route", NAME_Y) >= 1
    /\ Reported(output, "route", NAME_Y) >= 1

(***************************************************************************)
(* Reference extraction: the extractors and the typed text                 *)
(***************************************************************************)

\* null, or the name an extractor returns
NoName == [found |-> FALSE, name |-> <<>>]
FoundName(name) == [found |-> TRUE, name |-> name]

\* /::service\s*\(\s*['"]([a-z0-9._]+)['"]/gi
PhpServiceNameExtractor_servicePattern == ClosedCallPattern(servicePattern.heads)

\* /(?:\$this|\$container|\$this->container)->get\s*\(\s*['"]([a-z0-9._]+)['"]/gi
PhpServiceNameExtractor_getPattern == ClosedCallPattern(getPattern.heads)

\* quotePos of isCharacterInMatch: the first single quote of the match, the
\* first double quote when it has no single quote; 1-based, 0 for none
QuotePos(fullMatch) ==
    IF IndexOf(fullMatch, <<"'">>) > 0 THEN IndexOf(fullMatch, <<"'">>)
    ELSE IndexOf(fullMatch, <<"\"">>)

\* A variant that takes the start of the match for the start of the literal.
isCharacterInSpanFromMatchStart(matchStart, quotePos, nameLength, character) ==
    character >= matchStart /\ character <= matchStart + quotePos + 1 + nameLength + 1

\* The test of isCharacterInMatch, with quoteStart = matchStart + quotePos,
\* serviceEnd = quoteStart + 1 + serviceName.length and quoteEnd =
\* serviceEnd + 1 (0-based offsets)
isCharacterInSpan(matchStart, quotePos, nameLength, character) ==
    /\ character >= matchStart + quotePos
    /\ character <= matchStart + quotePos + 1 + nameLength + 1

\* PhpServiceNameExtractor.isCharacterInMatch
isCharacterInMatch(line, m, character) ==
    /\ QuotePos(Group0(line, m)) > 0
    /\ isCharacterInSpan(m.index - 1, QuotePos(Group0(line, m)) - 1, m.to - m.from, character)

\* match[1] of the first of the matches, null when there is none
FirstName(line, hits) ==
    IF hits = <<>> THEN NoName ELSE FoundName(Group1(line, Head(hits)))

\* A variant that returns the first match of the line, wherever the cursor is.
extractServiceNameFirstMatch(line, character) ==
    FirstName(line, ExecAll(line, PhpServiceNameExtractor_servicePattern)
                        \o ExecAll(line, PhpServiceNameExtractor_getPattern))

\* PhpServiceNameExtractor.extractServiceName: the first ::service match the
\* cursor is in, otherwise the first ->get match the cursor is in
PhpServiceNameExtractor_extractServiceName(line, character) ==
    FirstName(line,
        SelectSeq(ExecAll(line, PhpServiceNameExtractor_servicePattern)
                      \o ExecAll(line, PhpServiceNameExtractor_getPattern),
                  LAMBDA m : isCharacterInMatch(line, m, character)))

\* line.match(/^\s{2}([a-z0-9._]+):\s*$/) with the name ending before
\* position to
MatchServiceKeyTo(line, to) ==
    IF /\ to > 3
       /\ OccursAt(line, <<":">>, to)
       /\ SkipWhile(line, to + 1, SpaceChars) = Len(line) + 1
    THEN Match(1, Len(line) + 1, 3, to)
    ELSE NoMatch

MatchServiceKey(line) ==
    IF Len(line) >= 3 /\ line[1] \in SpaceChars /\ line[2] \in SpaceChars
    THEN MatchServiceKeyTo(line, SkipWhile(line, 3, LowerNameChars))
    ELSE NoMatch

\* character >= atPos && character <= serviceEnd
isCharacterInReference(m, character) ==
    character >= m.index - 1 /\ character <= (m.index - 1) + 1 + (m.to - m.from)

\* YamlServiceNameExtractor.extractServiceName
YamlServiceNameExtractor_extractServiceName(line, character) ==
    IF MatchServiceKey(line).found THEN FoundName(Group1(line, MatchServiceKey(line)))
    ELSE FirstName(line,
             SelectSeq(ExecAll(line, AT_SIGN_LOWER_PATTERN),
                       LAMBDA m : isCharacterInReference(m, character)))

\* [^'"], over the characters of the model
NotQuoteChars == {Chars[i] : i \in 1..Len(Chars)} \ QuoteChars

\* ['"][^'"]*$ at position i, which is 0 when the part of the pattern before
\* it did not match
OpenLiteralAt(line, i) ==
    /\ i >= 1
    /\ i <= Len(line)
    /\ line[i] \in QuoteChars
    /\ SkipWhile(line, i + 1, NotQuoteChars) = Len(line) + 1

\* ['"] at position i, which is 0 when the part of the pattern before it did
\* not match
QuoteAt(line, i) == i >= 1 /\ i <= Len(line) /\ line[i] \in QuoteChars

\* \s*\(\s* after one of the heads at position i: the position after it, or 0.
\* The patterns of the completion provider have no i flag.
AfterCallOpen(line, pattern, i) ==
    IF AfterHead(line, pattern.heads, i) = 0 THEN 0
    ELSE AfterOpen(line, pattern, AfterHead(line, pattern.heads, i))

\* line.match(/(?:head1|...)\s*\(\s*['"][^'"]*$/) !== null
MatchesOpenCall(line, pattern) ==
    \E i \in 1..Len(line) : OpenLiteralAt(line, AfterCallOpen(line, pattern, i))

\* String.prototype.lastIndexOf for one character, 1-based; 0 when it does
\* not occur
LastIndexOf(s, c) ==
    IF \E i \in 1..Len(s) : s[i] = c
    THEN CHOOSE i \in 1..Len(s) : s[i] = c /\ \A j \in (i + 1)..Len(s) : s[j] # c
    ELSE 0

\* String.prototype.substring(from, to), 0-based
Substring(s, from, to) == SubSeq(s, from + 1, to)

\* String.prototype.trim, the white space of the model being the space
TrimFrom(s, i) ==
    IF i > Len(s) THEN <<>>
    ELSE SubSeq(s, i, CHOOSE j \in i..Len(s) :
                        s[j] \notin SpaceChars /\ \A k \in (j + 1)..Len(s) : s[k] \in SpaceChars)

Trim(s) == TrimFrom(s, SkipWhile(s, 1, SpaceChars))

NoCallInfo == [found |-> FALSE, quoteStart |-> 0]

\* quoteChar = line.includes("'") ? "'" : '"' and
\* { quoteStart: line.lastIndexOf(quoteChar) }, 0-based
CallInfoOf(line) ==
    [found |-> TRUE,
     quoteStart |-> LastIndexOf(line, IF Includes(line, <<"'">>) THEN "'" ELSE "\"") - 1]

\* A variant that takes the last quote of the line, whichever character it
\* is.
getServiceCallInfoLastQuote(line) ==
    IF \/ MatchesOpenCall(line, servicePattern)
       \/ MatchesOpenCall(line, getPattern)
    THEN [found |-> TRUE,
          quoteStart |-> (CHOOSE i \in 1..Len(line) :
                            line[i] \in QuoteChars
                            /\ \A j \in (i + 1)..Len(line) : line[j] \notin QuoteChars) - 1]
    ELSE NoCallInfo

\* PhpCompletionProvider.getServiceCallInfo: /::service\s*\(\s*['"][^'"]*$/,
\* then /(?:\$this|\$container|\$this->container)->get\s*\(\s*['"][^'"]*$/
getServiceCallInfo(line) ==
    IF MatchesOpenCall(line, servicePattern) THEN CallInfoOf(line)
    ELSE IF MatchesOpenCall(line, getPattern) THEN CallInfoOf(line)
    ELSE NoCallInfo

\* PhpCompletionProvider.getTypedText
getTypedTextOf(line, callInfo) ==
    IF ~callInfo.found THEN <<>>
    ELSE Trim(Substring(line, callInfo.quoteStart + 1, Len(line)))

getTypedText(line) == getTypedTextOf(line, getServiceCallInfo(line))

\* /(?:Url::fromRoute|->redirect|->setRedirect|Link::createFromRoute)\s*\(\s*['"]/
routeContextPattern ==
    CallPattern(<<<<"U", "r", "l", ":", ":", "f", "r", "o", "m", "R", "o", "u", "t", "e">>, <<"-", ">", "r", "e", "d", "i", "r", "e", "c", "t">>, <<"-", ">", "s", "e", "t", "R", "e", "d", "i", "r", "e", "c", "t">>, <<"L", "i", "n", "k", ":", ":", "c", "r", "e", "a", "t", "e", "F", "r", "o", "m", "R", "o", "u", "t", "e">>>>,
                FALSE, FALSE)

\* PhpRouteNameExtractor.isRouteContext
isRouteContext(line) ==
    \E i \in 1..Len(line) : QuoteAt(line, AfterCallOpen(line, routeContextPattern, i))

\* The loop of getTypedRoute and getRouteCompletions: the offset of the last
\* quote before the cursor, -1 when there is none
QuoteStartBefore(line, character) ==
    IF \E i \in 1..character : i <= Len(line) /\ line[i] \in QuoteChars
    THEN (CHOOSE i \in 1..character :
            /\ i <= Len(line) /\ line[i] \in QuoteChars
            /\ \A j \in (i + 1)..character : j > Len(line) \/ line[j] \notin QuoteChars) - 1
    ELSE -1

\* PhpRouteNameExtractor.getTypedRoute
getTypedRouteFrom(line, character, quoteStart) ==
    IF quoteStart < 0 THEN <<>> ELSE Substring(line, quoteStart + 1, character)

getTypedRoute(line, character) ==
    getTypedRouteFrom(line, character, QuoteStartBefore(line, character))

\* What a completion request works with: the kind of the candidates, the
\* typed text their sort keys are computed from and the start of the range
\* they replace (the range ends at the cursor).
NoCompletion == [kind |-> "none", typedText |-> <<>>, rangeStart |-> 0]
Completion(kind, typedText, rangeStart) ==
    [kind |-> kind, typedText |-> typedText, rangeStart |-> rangeStart]

\* PhpCompletionProvider.getRouteCompletions
getRouteCompletions(line, character) ==
    IF QuoteStartBefore(line, character) < 0 THEN NoCompletion
    ELSE Completion("route", getTypedRoute(line, character),
                    QuoteStartBefore(line, character) + 1)

\* BaseCompletionProvider.provideCompletions with
\* PhpCompletionProvider.buildCompletionItems
serviceCompletions(line) ==
    IF ~getServiceCallInfo(line).found THEN NoCompletion
    ELSE Completion("service", getTypedText(line), getServiceCallInfo(line).quoteStart + 1)

\* PhpCompletionProvider.provideCompletions: line is the text of the line up to
\* the cursor
PhpCompletionProvider_provideCompletions(line, character) ==
    IF isRouteContext(line) THEN getRouteCompletions(line, character)
    ELSE serviceCompletions(line)

(***************************************************************************)
(* Reference extraction: the lines of the model and the specification      *)
(***************************************************************************)

NAME_CACHE_BACKEND == <<"c", "a", "c", "h", "e", ".", "b", "a", "c", "k", "e", "n", "d">>
WORD_CACHE == <<"c", "a", "c", "h", "e">>
ARROW == <<"-", ">">>

\* A reference as the author of a line writes it: the call-site shape, the
\* quote character, the name and whether the literal is terminated.
Ref(shape, quote, name, closed) ==
    [shape |-> shape, quote |-> quote, name |-> name, closed |-> closed]

\* The text of a shape before the literal.
ShapeHead(shape) ==
    CASE shape = "service" -> <<"\\", "D", "r", "u", "p", "a", "l", ":", ":", "s", "e", "r", "v", "i", "c", "e", "(">>
      [] shape = "this_get" -> <<"$", "t", "h", "i", "s", "-", ">", "g", "e", "t", "(">>
      [] shape = "container_get" -> <<"$", "c", "o", "n", "t", "a", "i", "n", "e", "r", "-", ">", "g", "e", "t", "(">>
      [] shape = "bare_get" -> <<"-", ">", "g", "e", "t", "(">>
      [] shape = "and_service" -> <<" ", ".", " ", "\\", "D", "r", "u", "p", "a", "l", ":", ":", "s", "e", "r", "v", "i", "c", "e", "(">>
      [] shape = "and_get" -> <<" ", ".", " ", "$", "t", "h", "i", "s", "-", ">", "c", "o", "n", "t", "a", "i", "n", "e", "r", "-", ">", "g", "e", "t", "(">>
      [] shape = "fromRoute" -> <<"U", "r", "l", ":", ":", "f", "r", "o", "m", "R", "o", "u", "t", "e", "(">>
      [] shape = "redirect" -> <<"$", "t", "h", "i", "s", "-", ">", "r", "e", "d", "i", "r", "e", "c", "t", "(">>
      [] shape = "setRedirect" -> <<"$", "f", "o", "r", "m", "_", "s", "t", "a", "t", "e", "-", ">", "s", "e", "t", "R", "e", "d", "i", "r", "e", "c", "t", "(">>
      [] shape = "createFromRoute" -> <<"L", "i", "n", "k", ":", ":", "c", "r", "e", "a", "t", "e", "F", "r", "o", "m", "R", "o", "u", "t", "e", "(", "$", "t", ",", " ">>
      [] shape = "createFromRouteTitle" -> <<"L", "i", "n", "k", ":", ":", "c", "r", "e", "a", "t", "e", "F", "r", "o", "m", "R", "o", "u", "t", "e", "(", "'", "t", "'", ",", " ">>
      [] shape = "arguments" -> <<" ", " ", " ", " ", "a", "r", "g", "u", "m", "e", "n", "t", "s", ":", " ", "[">>
      [] shape = "and_argument" -> <<",", " ">>
      [] shape = "route_name" -> <<" ", " ", "r", "o", "u", "t", "e", "_", "n", "a", "m", "e", ":", " ">>
      [] shape = "parent" -> <<" ", " ", "p", "a", "r", "e", "n", "t", ":", " ">>

\* The text of a shape after a terminated literal.
ShapeTail(shape) ==
    CASE shape \in {"arguments", "route_name", "parent"} -> <<>>
      [] shape = "and_argument" -> <<"]">>
      [] OTHER -> <<")">>

SigilShapes == {"arguments", "and_argument"}
ServiceShapes == {"service", "this_get", "container_get", "and_service", "and_get"} \cup SigilShapes
RouteShapes ==
    {"fromRoute", "redirect", "setRedirect", "createFromRoute", "createFromRouteTitle",
     "route_name"}

RefText(r) ==
    ShapeHead(r.shape) \o <<r.quote>>
        \o (IF r.shape \in SigilShapes THEN <<"@">> ELSE <<>>)
        \o r.name
        \o (IF r.closed THEN <<r.quote>> \o ShapeTail(r.shape) ELSE <<>>)

\* The text of a line: what precedes the references, then the references.
LineOf(prefix, refs) == prefix \o Flatten([k \in 1..Len(refs) |-> RefText(refs[k])])

\* Where the author's reference k is on the line, in 0-based offsets: its
\* opening quote, the first character of its name and the offset after the
\* name.
Located(prefix, refs, k) ==
    LET quoteStart == Len(LineOf(prefix, SubSeq(refs, 1, k - 1))) + Len(ShapeHead(refs[k].shape))
        nameStart == quoteStart + 1 + (IF refs[k].shape \in SigilShapes THEN 1 ELSE 0)
    IN  [shape |-> refs[k].shape, name |-> refs[k].name, closed |-> refs[k].closed,
         quoteStart |-> quoteStart, nameStart |-> nameStart,
         nameEnd |-> nameStart + Len(refs[k].name)]

\* The file a line is a line of.
FileOfShape(shape) ==
    IF shape \in {"arguments", "and_argument"} THEN "services"
    ELSE IF shape \in {"route_name", "parent"} THEN "links"
    ELSE "php"

ExtractInput(op, prefix, refs, character) ==
    [op |-> op, file |-> FileOfShape(refs[1].shape), line |-> LineOf(prefix, refs),
     character |-> character,
     refs |-> [k \in 1..Len(refs) |-> Located(prefix, refs, k)]]

\* The lines with one reference: the accessor without a receiver, and every
\* supported shape with either quote character, terminated or not.
SupportedShapes ==
    {"service", "this_get", "container_get", "fromRoute", "redirect", "setRedirect",
     "createFromRoute", "arguments", "route_name", "parent"}

OneReferenceLines ==
    {<<Ref("bare_get", "'", NAME_CACHE_BACKEND, TRUE)>>}
    \cup {<<Ref(shape, quote, NAME_CACHE_BACKEND, closed)>> :
            shape \in SupportedShapes, quote \in QuoteChars, closed \in BOOLEAN}

\* The lines with two references.
TwoReferenceLines ==
    {<<Ref("service", "'", NAME_X, TRUE), Ref("and_service", "'", NAME_Y, TRUE)>>,
     <<Ref("service", "\"", NAME_CACHE_BACKEND, TRUE), Ref("and_get", "'", NAME_Y, TRUE)>>,
     <<Ref("this_get", "'", NAME_X, TRUE), Ref("and_service", "\"", NAME_CACHE_BACKEND, TRUE)>>,
     <<Ref("container_get", "'", NAME_X, TRUE), Ref("and_get", "'", NAME_Y, TRUE)>>,
     <<Ref("arguments", "'", NAME_X, TRUE), Ref("and_argument", "'", NAME_CACHE_BACKEND, TRUE)>>,
     <<Ref("arguments", "\"", NAME_CACHE_BACKEND, TRUE), Ref("and_argument", "\"", NAME_Y, TRUE)>>}

\* The lines a completion is requested in, the cursor being at their end: a
\* statement or nothing, then an open literal of a call with the text typed
\* so far.
TextsBefore == {<<>>, <<"$", "a", " ", "=", " ", "'", "b", "'", ";", " ">>, <<"$", "a", " ", "=", " ", "\"", "b", "\"", ";", " ">>}
TypedSoFar == {<<>>, <<"c", "a">>, <<"c", "a", "c", "h", "e", ".", "b">>}
CompletionShapes ==
    {"service", "this_get", "container_get", "fromRoute", "redirect", "setRedirect",
     "createFromRoute", "createFromRouteTitle"}

ExtractInputs ==
    UNION {{ExtractInput("extract", <<>>, refs, character) :
                character \in 0..Len(LineOf(<<>>, refs))} :
              refs \in OneReferenceLines \cup TwoReferenceLines}
    \cup {ExtractInput("validate", <<>>, refs, 0) : refs \in OneReferenceLines \cup TwoReferenceLines}
    \cup {ExtractInput("complete", prefix, <<Ref(shape, quote, typed, FALSE)>>,
                       Len(LineOf(prefix, <<Ref(shape, quote, typed, FALSE)>>))) :
            prefix \in TextsBefore, shape \in CompletionShapes, quote \in QuoteChars,
            typed \in TypedSoFar}

NoExtractOutput == [result |-> NoName, names |-> <<>>, completion |-> NoCompletion]

InitExtract ==
    /\ IdleServer
    /\ phpcs = None
    /\ pc = "ready"
    /\ input \in ExtractInputs
    /\ output = NoExtractOutput

\* A hover or definition request in a PHP document: the provider calls
\* extractServiceName(line, position.character).
ExtractPhp ==
    /\ pc = "ready"
    /\ input.op = "extract"
    /\ input.file = "php"
    /\ pc' = "done"
    /\ output' = [NoExtractOutput EXCEPT
                    !.result = PhpServiceNameExtractor_extractServiceName(input.line, input.character)]
    /\ UNCHANGED input
    /\ ServerUnchanged

\* A definition request in a YAML document.
ExtractYaml ==
    /\ pc = "ready"
    /\ input.op = "extract"
    /\ input.file # "php"
    /\ pc' = "done"
    /\ output' = [NoExtractOutput EXCEPT
                    !.result = YamlServiceNameExtractor_extractServiceName(input.line, input.character)]
    /\ UNCHANGED input
    /\ ServerUnchanged

NamesOfResults(results) == [j \in 1..Len(results) |-> results[j].name]

\* The names the validators find in a line, none of them being available.
ValidatedNames(file, line) ==
    CASE file = "php" -> NamesOfResults(extractServiceCalls(line) \o extractRouteCalls(line))
      [] file = "services" -> NamesOfResults(validateServicesLines(<<line>>, <<>>))
      [] file = "links" ->
            NamesOfResults(validateRoutesLines(<<line>>, <<>>)
                               \o validateParentLinksLines(<<line>>, <<>>))

\* A diagnostics pass over the line.
ValidateLine ==
    /\ pc = "ready"
    /\ input.op = "validate"
    /\ pc' = "done"
    /\ output' = [NoExtractOutput EXCEPT !.names = ValidatedNames(input.file, input.line)]
    /\ UNCHANGED input
    /\ ServerUnchanged

\* A completion request in a PHP document with the cursor at the end of the
\* line.
Complete ==
    /\ pc = "ready"
    /\ input.op = "complete"
    /\ pc' = "done"
    /\ output' = [NoExtractOutput EXCEPT
                    !.completion = PhpCompletionProvider_provideCompletions(input.line, input.character)]
    /\ UNCHANGED input
    /\ ServerUnchanged

NextExtract ==
    \/ ExtractPhp
    \/ ExtractYaml
    \/ ValidateLine
    \/ Complete

SpecExtract == InitExtract /\ [][NextExtract]_vars

(***************************************************************************)
(* C11 to C14: extraction under the cursor and the typed prefix            *)
(***************************************************************************)

\* The cursor touches the word the name of reference r starts with.
InWord(r, word, character) ==
    /\ StartsWith(r.name, word)
    /\ character >= r.nameStart
    /\ character <= r.nameStart + Len(word)

\* The cursor touches the first -> of the line.
InArrow(line, character) ==
    /\ Includes(line, ARROW)
    /\ character >= IndexOf(line, ARROW) - 1
    /\ character <= IndexOf(line, ARROW) - 1 + Len(ARROW)

\* The cursor touches the name of reference r.
InName(r, character) == character >= r.nameStart /\ character <= r.nameEnd

\* The cursor touches the literal of reference r, its quotes included.
InLiteral(r, character) ==
    character >= r.quoteStart /\ character <= r.nameEnd + (IF r.closed THEN 1 ELSE 0)

\* An extraction has been made in a line with one terminated reference of
\* one of the shapes to cache.backend.
ExtractedIn(shapes) ==
    /\ pc = "done"
    /\ input.op = "extract"
    /\ Len(input.refs) = 1
    /\ input.refs[1].shape \in shapes
    /\ input.refs[1].closed
    /\ input.refs[1].name = NAME_CACHE_BACKEND

\* C11 as stated: for the line ->get('cache.backend'), extractServiceName
\* with the cursor at an offset inside cache returns cache.backend, and with
\* the cursor at an offset inside -> returns no match.
C11_BareAccessorExtracted ==
    ExtractedIn({"bare_get"}) =>
        /\ InWord(input.refs[1], WORD_CACHE, input.character) =>
              output.result = FoundName(NAME_CACHE_BACKEND)
        /\ InArrow(input.line, input.character) => output.result = NoName

\* C11 amended: for the lines $this->get('cache.backend') and
\* $container->get("cache.backend"), in which the accessor has one of the
\* receivers the extractor accepts, extractServiceName with the cursor at an
\* offset inside cache returns cache.backend and with the cursor at an offset
\* inside -> returns no match; for the line ->get('cache.backend') it returns
\* no match at every offset.
C11_AccessorExtractedUnderCursor ==
    /\ ExtractedIn({"this_get", "container_get"}) =>
          /\ InWord(input.refs[1], WORD_CACHE, input.character) =>
                output.result = FoundName(NAME_CACHE_BACKEND)
          /\ InArrow(input.line, input.character) => output.result = NoName
    /\ ExtractedIn({"bare_get"}) => output.result = NoName

\* The cursor is inside cache in $this->get('cache.backend') and the
\* extractor has returned cache.backend.
C11_Witness ==
    /\ ExtractedIn({"this_get"})
    /\ input.line = <<"$", "t", "h", "i", "s", "-", ">", "g", "e", "t", "(", "'", "c", "a", "c", "h", "e", ".", "b", "a", "c", "k", "e", "n", "d", "'", ")">>
    /\ input.character = input.refs[1].nameStart + 2
    /\ output.result = FoundName(NAME_CACHE_BACKEND)

\* C12: for every supported shape, a line whose closing quote is missing
\* yields the identifier the line with the closing quote yields, which is the
\* name in the literal: from the validator, and from the extractor (the
\* shapes of services have one) when the cursor is in the name.
C12_UnterminatedLiteralTolerated ==
    (pc = "done" /\ Len(input.refs) = 1 /\ input.refs[1].shape \in SupportedShapes) =>
        /\ input.op = "validate" => output.names = <<input.refs[1].name>>
        /\ (/\ input.op = "extract"
            /\ input.refs[1].shape \in ServiceShapes
            /\ InName(input.refs[1], input.character)) =>
                output.result = FoundName(input.refs[1].name)

\* C13: in a line with several references, the extractor returns the name of
\* the reference whose name the cursor is in, and no match when the cursor is
\* in the literal of none of them.
C13_ReferenceUnderCursor ==
    (pc = "done" /\ input.op = "extract" /\ Len(input.refs) > 1) =>
        /\ \A k \in 1..Len(input.refs) :
              InName(input.refs[k], input.character) =>
                  output.result = FoundName(input.refs[k].name)
        /\ (\A k \in 1..Len(input.refs) : ~InLiteral(input.refs[k], input.character)) =>
              output.result = NoName

\* The cursor is in the second of two references of a PHP line, whose name is
\* not the name of the first, and the extractor has returned the second name.
C13_Witness ==
    /\ pc = "done"
    /\ input.op = "extract"
    /\ input.file = "php"
    /\ Len(input.refs) = 2
    /\ InName(input.refs[2], input.character)
    /\ input.refs[2].name # input.refs[1].name
    /\ output.result = FoundName(input.refs[2].name)

\* C14: for a line that ends at the cursor inside an open literal of a
\* service or route call, the typed text and the start of the replacement
\* range are the text and the offset after the literal's opening quote,
\* whichever the quote character and whatever quotes the line has before.
C14_TypedPrefixOfOpenLiteral ==
    (pc = "done" /\ input.op = "complete") =>
        /\ output.completion.kind =
              (IF input.refs[1].shape \in RouteShapes THEN "route" ELSE "service")
        /\ output.completion.typedText = input.refs[1].name
        /\ output.completion.rangeStart = input.refs[1].quoteStart + 1

(***************************************************************************)
(* CacheManager: its methods under a running clock                         *)
(***************************************************************************)

\* The most calls and clock steps of a run.
MaxCacheOps == 3

\* defaultTtl of the constructor, in milliseconds
DEFAULT_TTL == 5 * 60 * 1000

\* The period of the cleanup timer of onInitialize, in milliseconds
CLEANUP_INTERVAL == 5 * 60 * 1000

\* CacheManager.set: ttl ?? this.defaultTtl, the ttl given being Infinity
TtlOrDefault(given) == IF given THEN Infinity ELSE Millis(DEFAULT_TTL)

\* CacheManager.has
CacheHas(c, key, t) == CacheGet(c, key, t) # Undefined

\* CacheManager.clearPattern: the number it returns
clearPatternCount(c, pattern) == Cardinality({k \in DOMAIN c : matchesPattern(k, pattern)})

\* CacheManager.cleanup: the map without the expired entries, and the number
\* it returns
CacheCleanup(c, t) == [k \in {x \in DOMAIN c : ~Expired(c[x], t)} |-> c[k]]
CacheCleanupCount(c, t) == Cardinality({k \in DOMAIN c : Expired(c[k], t)})

KEY_SERVICES_FOO == SERVICES_CACHE_PREFIX \o <<"/", "f", "o", "o", ".", "y", "m", "l">>
KEY_SERVICES_BAR == SERVICES_CACHE_PREFIX \o <<"/", "b", "a", "r", ".", "y", "m", "l">>
KEY_ROUTES_FOO == ROUTES_CACHE_PREFIX \o <<"/", "f", "o", "o", ".", "y", "m", "l">>

CacheKeys == {KEY_SERVICES_FOO, KEY_SERVICES_BAR, KEY_ROUTES_FOO}

\* The patterns clearPattern is called with: a key, a prefix with a
\* trailing *, a text between two *, and a lone *.
PATTERN_SERVICES == SERVICES_CACHE_PREFIX \o <<"*">>
PATTERN_FOO == <<"*", "f", "o", "o", "*">>
PATTERN_ALL == <<"*">>

CachePatterns == {KEY_ROUTES_FOO, PATTERN_SERVICES, PATTERN_FOO, PATTERN_ALL}

\* The caches a run starts from: the entries the parsers have stored for some
\* files, each with infinite TTL.
StoredCaches ==
    {[k \in keys |-> [value |-> "a", timestamp |-> 0, ttl |-> Infinity]] :
        keys \in SUBSET CacheKeys}

NoCall == [op |-> "none", key |-> <<>>]
Call(op, key) == [op |-> op, key |-> key]
NoResult == [value |-> Undefined, count |-> 0]

CacheRestUnchanged ==
    UNCHANGED <<initialized, disk, docs, scannedFiles, handlers, lastOp, expect, raced, pc, phpcs>>

InitCache ==
    /\ initialized = FALSE
    /\ disk = [f \in Files |-> Absent]
    /\ docs = [f \in Files |-> Closed]
    /\ cache \in StoredCaches
    /\ now = 0
    /\ scannedFiles = [k \in KindSet |-> <<>>]
    /\ handlers = <<>>
    /\ lastOp = [k \in KindSet |-> [f \in Files |-> [op |-> "none", n |-> 0, had |-> FALSE, same |-> FALSE]]]
    /\ expect = [k \in KindSet |-> [f \in Files |-> <<>>]]
    /\ raced = [k \in KindSet |-> [f \in Files |-> FALSE]]
    /\ budget = MaxCacheOps
    /\ phpcs = None
    /\ pc = "ready"
    /\ input = NoCall
    /\ output = NoResult

\* cache.set(key, value, ttl) with infinite TTL, and cache.set(key, value)
CallSet ==
    /\ budget > 0
    /\ budget' = budget - 1
    /\ \E key \in CacheKeys, given \in BOOLEAN :
          /\ cache' = CacheSet(cache, key, "b", TtlOrDefault(given), now)
          /\ input' = Call("set", key)
    /\ output' = NoResult
    /\ UNCHANGED now
    /\ CacheRestUnchanged

\* cache.get(key)
CallGet ==
    /\ budget > 0
    /\ budget' = budget - 1
    /\ \E key \in CacheKeys :
          /\ cache' = CacheAfterGet(cache, key, now)
          /\ input' = Call("get", key)
          /\ output' = [NoResult EXCEPT !.value = CacheGet(cache, key, now)]
    /\ UNCHANGED now
    /\ CacheRestUnchanged

\* cache.has(key)
CallHas ==
    /\ budget > 0
    /\ budget' = budget - 1
    /\ \E key \in CacheKeys :
          /\ cache' = CacheAfterGet(cache, key, now)
          /\ input' = Call("has", key)
          /\ output' = [NoResult EXCEPT
                          !.value = IF CacheHas(cache, key, now) THEN "true" ELSE "false"]
    /\ UNCHANGED now
    /\ CacheRestUnchanged

\* cache.delete(key)
CallDelete ==
    /\ budget > 0
    /\ budget' = budget - 1
    /\ \E key \in CacheKeys :
          /\ cache' = CacheDelete(cache, key)
          /\ input' = Call("delete", key)
    /\ output' = NoResult
    /\ UNCHANGED now
    /\ CacheRestUnchanged

\* cache.clearPattern(pattern)
CallClearPattern ==
    /\ budget > 0
    /\ budget' = budget - 1
    /\ \E pattern \in CachePatterns :
          /\ cache' = clearPattern(cache, pattern)
          /\ input' = Call("clearPattern", pattern)
          /\ output' = [NoResult EXCEPT !.count = clearPatternCount(cache, pattern)]
    /\ UNCHANGED now
    /\ CacheRestUnchanged

\* The cleanup timer fires: cacheManager.cleanup()
CallCleanup ==
    /\ budget > 0
    /\ budget' = budget - 1
    /\ cache' = CacheCleanup(cache, now)
    /\ input' = Call("cleanup", <<>>)
    /\ output' = [NoResult EXCEPT !.count = CacheCleanupCount(cache, now)]
    /\ UNCHANGED now
    /\ CacheRestUnchanged

\* Time passes: a millisecond, the period of the cleanup timer, or the
\* default TTL and a millisecond.
Tick ==
    /\ budget > 0
    /\ budget' = budget - 1
    /\ \E ms \in {1, CLEANUP_INTERVAL, DEFAULT_TTL + 1} : now' = now + ms
    /\ input' = Call("tick", <<>>)
    /\ output' = NoResult
    /\ UNCHANGED cache
    /\ CacheRestUnchanged

NextCache ==
    \/ CallSet
    \/ CallGet
    \/ CallHas
    \/ CallDelete
    \/ CallClearPattern
    \/ CallCleanup
    \/ Tick

SpecCache == InitCache /\ [][NextCache]_vars

(***************************************************************************)
(* C15 and C16: clearing by pattern and entries of infinite TTL            *)
(***************************************************************************)

\* The matching of the three pattern forms: a pattern without * matches the
\* equal key, foo* the keys that start with foo, *foo* the keys that contain
\* foo.
PatternMatches(key, pattern) ==
    IF ~Includes(pattern, <<"*">>) THEN key = pattern
    ELSE IF Len(pattern) >= 2 /\ StartsWith(pattern, <<"*">>) /\ EndsWith(pattern, <<"*">>)
    THEN Includes(key, SubSeq(pattern, 2, Len(pattern) - 1))
    ELSE StartsWith(key, SubSeq(pattern, 1, Len(pattern) - 1))

\* C15: a call of clearPattern removes exactly the keys that match the
\* pattern (equal, prefix for foo*, substring for *foo*), returns their number
\* and leaves the other entries as they were.
C15_ClearPatternRemovesMatching ==
    [][input'.op = "clearPattern" =>
          /\ DOMAIN cache' = {k \in DOMAIN cache : ~PatternMatches(k, input'.key)}
          /\ \A k \in DOMAIN cache' : cache'[k] = cache[k]
          /\ output'.count = Cardinality({k \in DOMAIN cache : PatternMatches(k, input'.key)})
      ]_vars

\* The steps that are a read, a cleanup or the passage of time.
ReadOrTimeStep == input'.op \in {"get", "has", "cleanup", "tick"}

\* C16: an entry stored with infinite TTL is not removed by the passage of
\* time: over every get, has, cleanup and clock step it stays in the cache
\* unchanged and readable.
C16_InfiniteTtlNeverExpires ==
    [][ReadOrTimeStep =>
          \A k \in DOMAIN cache :
              cache[k].ttl = Infinity =>
                  /\ k \in DOMAIN cache'
                  /\ cache'[k] = cache[k]
                  /\ CacheGet(cache', k, now') = cache[k].value
      ]_vars

\* A cleanup has removed an expired entry of finite TTL and kept an entry of
\* infinite TTL that is older than the default TTL, which is readable.
C16_Witness ==
    /\ input.op = "cleanup"
    /\ output.count >= 1
    /\ \E k \in DOMAIN cache :
          /\ cache[k].ttl = Infinity
          /\ now - cache[k].timestamp > DEFAULT_TTL
          /\ CacheGet(cache, k, now) = cache[k].value

(***************************************************************************)
(* The full scan over files that cannot be parsed                          *)
(***************************************************************************)

\* The contents of a file with a syntax error.
BrokenContents(f) ==
    IF EndsWith(f, SERVICES_SUFFIX) THEN {DOC_SVC_X_BROKEN} ELSE {DOC_FLAT_X_BROKEN}

\* The workspaces the scan runs over: every definition file has one of its
\* contents, has a syntax error, or makes parseFile throw.  One of the globs
\* of a run may reject.
ScanDisks ==
    {d \in [Files -> AllContents] :
        \A f \in Files : d[f] \in Contents(f) \cup BrokenContents(f) \cup {Malformed}}

InitScan ==
    /\ initialized = FALSE
    /\ disk \in ScanDisks
    /\ docs = [f \in Files |-> Closed]
    /\ cache = << >>
    /\ now = 0
    /\ scannedFiles = [k \in KindSet |-> <<>>]
    /\ handlers = <<>>
    /\ lastOp = [k \in KindSet |-> [f \in Files |-> [op |-> "none", n |-> 0, had |-> FALSE, same |-> FALSE]]]
    /\ expect = [k \in KindSet |-> [f \in Files |-> <<>>]]
    /\ raced = [k \in KindSet |-> [f \in Files |-> FALSE]]
    /\ budget = ScanEventWeight
    /\ phpcs = None
    /\ pc = None
    /\ input = None
    /\ output = None

NextScan ==
    \/ Initialize
    \/ \E i \in 1..MaxInFlight : ScanStep(i)

SpecScan == InitScan /\ [][NextScan]_vars

(***************************************************************************)
(* C17: a parse failure during the full scan                               *)
(***************************************************************************)

\* The files the scan of a kind found: those of the list its glob returned
\* (none when the glob rejected), which the loop of the scan has parsed.
FoundFiles(kind) == {f \in Files : lastOp[kind][f].op = "scan"}

\* The entities of the index of a kind that come from file f, in index order.
EntitiesFrom(kind, f) ==
    SelectSeq(getAll(kind, cache, scannedFiles, now), LAMBDA e : e.sourceFile = f)

\* Parsing the file fails: the body of parseFile throws, or the YAML library
\* reports syntax errors for the text.
ParseFailure(f) == disk[f].state = "throws" \/ disk[f].errors

\* C17: after the full scans, a file whose parse failed contributes no
\* entity, the scan went on to the end of its list (every file found is in
\* scannedFiles, which a raised failure would have prevented), and every
\* other file contributes the entities of its own content.
C17_ParseFailureIsolated ==
    (initialized /\ ~ScanInFlight) =>
        \A kind \in KindSet : \A f \in FoundFiles(kind) :
            /\ SetHas(scannedFiles[kind], f)
            /\ ParseFailure(f) => EntitiesFrom(kind, f) = <<>>
            /\ ~ParseFailure(f) =>
                  /\ KeyTable[kind][f] \in DOMAIN cache
                  /\ cache[KeyTable[kind][f]].value = ParseResult(kind, disk[f], f, DrupalRoot).entities

(***************************************************************************)
(* PhpCsProvider: the style checker and the fixer                          *)
(***************************************************************************)

\* PhpCsBinaryResolver: the paths found at construction; a path is null
\* (FALSE) when the binary is neither in vendor/bin nor on the PATH.
PhpCsBinaryResolver(installed) ==
    [phpcsPath |-> installed.phpcs, phpcbfPath |-> installed.phpcbf]

isPhpcsAvailable(resolver) == resolver.phpcsPath
isPhpcbfAvailable(resolver) == resolver.phpcbfPath

\* A variant of the constructor that takes the setting alone.
PhpCsProviderOfSetting(installed, enabled, gen) ==
    [resolver |-> PhpCsBinaryResolver(installed), enabled |-> enabled,
     cache |-> << >>, gen |-> gen]

\* new PhpCsProvider(workspaceRoot, enabled); gen tells the instances apart.
PhpCsProvider(installed, enabled, gen) ==
    LET resolver == PhpCsBinaryResolver(installed)
    IN  [resolver |-> resolver,
         enabled |-> enabled /\ isPhpcsAvailable(resolver),
         cache |-> << >>,
         gen |-> gen]

\* The documents the requests are about, and their text.
PhpUris == {F_CUSTOM_PHP, F_CUSTOM_MODULE}
ORIGINAL_TEXT == <<"<", "?", "p", "h", "p">> \o <<"\n">> \o <<"$", "a", "=", "1", ";">>
FIXED_TEXT == <<"<", "?", "p", "h", "p">> \o <<"\n">> \o <<"$", "a", " ", "=", " ", "1", ";">>
ERROR_TEXT == <<"E", "R", "R", "O", "R", ":", " ", "t", "h", "e", " ", "s", "t", "a", "n", "d", "a", "r", "d", " ", "i", "s", " ", "n", "o", "t", " ", "i", "n", "s", "t", "a", "l", "l", "e", "d">>
NO_VIOLATIONS_TEXT == <<"N", "o", " ", "v", "i", "o", "l", "a", "t", "i", "o", "n", "s", " ", "w", "e", "r", "e", " ", "f", "o", "u", "n", "d">>
TIME_TEXT == <<"T", "i", "m", "e", ":", " ", "5", "m", "s", ";", " ", "M", "e", "m", "o", "r", "y", ":", " ", "6", "M", "B">>

\* What phpcs writes to stdout: nothing, text that is not JSON, or a report
\* with the messages of one file.
SNIFF == <<"D", "r", "u", "p", "a", "l", ".", "X">>
PhpcsMessage(line, column, type) ==
    [line |-> line, column |-> column, type |-> type, source |-> SNIFF, message |-> <<"m">>]
NoOutput == [kind |-> "none", file |-> <<>>, messages |-> <<>>]
GarbageOutput == [kind |-> "garbage", file |-> <<>>, messages |-> <<>>]
Report(file, messages) == [kind |-> "report", file |-> file, messages |-> messages]

PhpcsOutputs(uri) ==
    {NoOutput, GarbageOutput,
     Report(uri, <<>>),
     Report(uri, <<PhpcsMessage(0, 3, "ERROR")>>),
     Report(uri, <<PhpcsMessage(2, 1, "WARNING")>>),
     Report(<<"/", "o", "t", "h", "e", "r", ".", "p", "h", "p">>, <<PhpcsMessage(2, 1, "ERROR")>>)}

MaxOf(a, b) == IF a >= b THEN a ELSE b

\* The diagnostic built for one message of the report.
PhpcsDiagnostic(message) ==
    LET line == MaxOf(0, message.line - 1)
        col == MaxOf(0, message.column - 1)
    IN  [severity |-> IF message.type = "ERROR" THEN "Error" ELSE "Warning",
         range |-> <<line, col, line, col + 1>>,
         message |-> message.message,
         source |-> <<"p", "h", "p", "c", "s", " ", "(">> \o message.source \o <<")">>,
         code |-> message.source]

\* PhpCsProvider.parsePhpcsOutput: JSON.parse throwing and a report without
\* the file both give the empty list.
parsePhpcsOutput(stdout, filePath) ==
    IF stdout.kind # "report" THEN <<>>
    ELSE IF stdout.file # filePath THEN <<>>
    ELSE [i \in 1..Len(stdout.messages) |-> PhpcsDiagnostic(stdout.messages[i])]

\* PhpCsProvider.getDiagnostics up to the promise: the value it returns at
\* once, or the process it starts.
getDiagnosticsStart(provider, uri, version) ==
    IF ~provider.enabled \/ ~isPhpcsAvailable(provider.resolver)
    THEN [spawn |-> FALSE, result |-> <<>>]
    ELSE IF uri \in DOMAIN provider.cache /\ provider.cache[uri].version = version
    THEN [spawn |-> FALSE, result |-> provider.cache[uri].diagnostics]
    ELSE [spawn |-> TRUE, result |-> <<>>]

\* The 'close' handler of getDiagnostics: the diagnostics it resolves with.
getDiagnosticsClose(stdout, uri) ==
    IF stdout.kind # "none" THEN parsePhpcsOutput(stdout, uri) ELSE <<>>

\* PhpCsProvider.getCodeActions
CodeAction(uri) ==
    [title |-> <<"F", "i", "x", " ", "w", "i", "t", "h", " ", "p", "h", "p", "c", "b", "f">>, kind |-> "quickfix",
     command |-> <<"d", "r", "u", "p", "a", "l", "L", "s", "p", ".", "r", "u", "n", "P", "h", "p", "c", "b", "f">>, arguments |-> <<uri>>]

getCodeActions(provider, uri, diagnostics) ==
    IF ~provider.enabled \/ ~isPhpcbfAvailable(provider.resolver) THEN <<>>
    ELSE IF SelectSeq(diagnostics, LAMBDA d : StartsWith(d.source, <<"p", "h", "p", "c", "s">>)) = <<>> THEN <<>>
    ELSE <<CodeAction(uri)>>

\* How a run of the fixer ends: it cannot be started, or it exits with a
\* code after writing to stdout.
NoOutcome == [kind |-> "none", code |-> 0, stdout |-> <<>>]
SpawnError == [kind |-> "error", code |-> 0, stdout |-> <<>>]
Exit(code, stdout) == [kind |-> "exit", code |-> code, stdout |-> stdout]

FixerOutcomes ==
    {SpawnError,
     Exit(0, ORIGINAL_TEXT), Exit(0, NO_VIOLATIONS_TEXT), Exit(0, TIME_TEXT), Exit(0, <<>>),
     Exit(1, FIXED_TEXT), Exit(2, FIXED_TEXT),
     Exit(3, ERROR_TEXT), Exit(3, <<>>)}

\* PhpCsProvider.fixFile up to the await: FALSE at once, or the command runs.
fixFileStart(provider) ==
    IF ~provider.enabled \/ ~isPhpcbfAvailable(provider.resolver)
    THEN [spawn |-> FALSE, result |-> FALSE]
    ELSE [spawn |-> TRUE, result |-> FALSE]

\* PhpCsProvider.fixFile after the await: execAsync resolves on exit code 0
\* and rejects otherwise; the try returns true and so does the catch.
fixFileEnd(outcome) ==
    IF outcome.kind = "exit" /\ outcome.code = 0 THEN TRUE ELSE TRUE

\* The result of formatDocument: null, or the edits.
NullEdits == [isNull |-> TRUE, edits |-> <<>>]
Edits(edits) == [isNull |-> FALSE, edits |-> edits]

\* originalText.split('\n'): the index of the last line and its length
LastLine(text) == Cardinality({i \in 1..Len(text) : text[i] = "\n"})
LastChar(text) ==
    LET breaks == {i \in 1..Len(text) : text[i] = "\n"}
    IN  IF breaks = {} THEN Len(text)
        ELSE Len(text) - (CHOOSE i \in breaks : \A j \in breaks : j <= i)

formatDocumentStart(provider) ==
    IF ~provider.enabled \/ ~isPhpcbfAvailable(provider.resolver)
    THEN [spawn |-> FALSE, result |-> NullEdits]
    ELSE [spawn |-> TRUE, result |-> NullEdits]

\* The 'close' handler of formatDocument: the exit code is not looked at.
formatDocumentClose(stdout, originalText) ==
    LET isValidOutput ==
            /\ stdout # <<>>
            /\ stdout # originalText
            /\ ~Includes(stdout, <<"N", "o", " ", "v", "i", "o", "l", "a", "t", "i", "o", "n", "s">>)
            /\ ~Includes(stdout, <<"T", "i", "m", "e", ":">>)
            /\ ~Includes(stdout, <<"M", "e", "m", "o", "r", "y", ":">>)
    IN  IF isValidOutput
        THEN Edits(<<[range |-> <<0, 0, LastLine(originalText), LastChar(originalText)>>,
                      newText |-> stdout]>>)
        ELSE NullEdits

(***************************************************************************)
(* PhpCsProvider: requests, processes and settings                         *)
(***************************************************************************)

MaxPhpcsOps == 3

\* The diagnostics a code-action request carries.
OTHER_DIAGNOSTIC ==
    [severity |-> "Error", range |-> <<0, 0, 0, 1>>, message |-> <<"m">>,
     source |-> <<"d", "r", "u", "p", "a", "l", "-", "l", "s", "p">>, code |-> <<"x">>]
ContextDiagnostics ==
    {<<>>, <<OTHER_DIAGNOSTIC>>, <<OTHER_DIAGNOSTIC, PhpcsDiagnostic(PhpcsMessage(2, 1, "ERROR"))>>}

\* A request that has started a process and waits for it to end; failed
\* says that the process could not be started and its 'error' event has
\* resolved the request, its 'close' event being still to come.
Proc(op, uri) ==
    [op |-> op, uri |-> uri, version |-> phpcs.version[uri], gen |-> phpcs.provider.gen,
     setting |-> phpcs.setting, found |-> phpcs.installed.phpcs, failed |-> FALSE]

\* What is kept of a finished request: how it was made, whether it started
\* a process, what the process did and what the request returned.
Finished(op, uri, setting, found, spawned, out, result) ==
    [op |-> op, uri |-> uri, setting |-> setting, found |-> found,
     spawned |-> spawned, out |-> out, result |-> result]

ReturnedAtOnce(op, uri, result) ==
    Finished(op, uri, phpcs.setting, phpcs.installed.phpcs, FALSE, NoOutcome, result)

Ended(p, out, result) ==
    Finished(p.op, p.uri, p.setting, p.found, TRUE, out, result)

NoRequest == Finished("none", <<>>, FALSE, FALSE, FALSE, NoOutcome, FALSE)

Remove(seq, i) == SubSeq(seq, 1, i - 1) \o SubSeq(seq, i + 1, Len(seq))

PhpcsRestUnchanged ==
    UNCHANGED <<initialized, disk, docs, cache, now, scannedFiles, handlers,
                lastOp, expect, raced, pc, input, output>>

\* The parsers and their index take no part: they are left empty.
InitPhpcs ==
    /\ initialized = TRUE
    /\ disk = << >>
    /\ docs = << >>
    /\ cache = << >>
    /\ now = 0
    /\ scannedFiles = << >>
    /\ handlers = <<>>
    /\ lastOp = << >>
    /\ expect = << >>
    /\ raced = << >>
    /\ budget = MaxPhpcsOps
    /\ pc = None
    /\ input = None
    /\ output = None
    /\ \E setting \in BOOLEAN, installed \in [phpcs : BOOLEAN, phpcbf : BOOLEAN] :
          phpcs = [setting |-> setting,
                   installed |-> installed,
                   provider |-> PhpCsProvider(installed, setting, 0),
                   version |-> [u \in PhpUris |-> 1],
                   computed |-> [u \in PhpUris |-> 0],
                   procs |-> <<>>,
                   last |-> NoRequest]

\* connection.onDidChangeConfiguration with a phpcs setting: the provider is
\* replaced by a new one; the processes of the old one run on.
DidChangeConfiguration ==
    /\ budget > 0
    /\ \E enabled \in BOOLEAN :
          phpcs' = [phpcs EXCEPT
                       !.setting = enabled,
                       !.provider = PhpCsProvider(phpcs.installed, enabled, phpcs.provider.gen + 1)]
    /\ budget' = budget - 1
    /\ PhpcsRestUnchanged

\* The client edits a document: its version grows.
DocumentEdited ==
    /\ budget > 0
    /\ \E uri \in PhpUris : phpcs' = [phpcs EXCEPT !.version[uri] = @ + 1]
    /\ budget' = budget - 1
    /\ PhpcsRestUnchanged

\* PhpCsProvider.getDiagnostics(document) up to the promise it returns
GetDiagnostics ==
    /\ budget > 0
    /\ \E uri \in PhpUris :
          LET s == getDiagnosticsStart(phpcs.provider, uri, phpcs.version[uri])
          IN  phpcs' = IF s.spawn
                       THEN [phpcs EXCEPT !.procs = Append(@, Proc("getDiagnostics", uri))]
                       ELSE [phpcs EXCEPT !.last = ReturnedAtOnce("getDiagnostics", uri, s.result)]
    /\ budget' = budget - 1
    /\ PhpcsRestUnchanged

\* phpcs.on('close'): the result is parsed, stored in the cache of the
\* provider that started the process, and the request resolves with it.
\* The entry's version is document.version as the handler reads it: the
\* document is the object the TextDocuments manager updates in place, so it
\* is the version of that moment, while the text the process was given
\* (document.getText() when it was started) is that of the request.  The
\* history computed notes for which version's text the stored diagnostics
\* were made.  The handler also runs for a process that could not be
\* started, after its 'error' event: nothing was written to stdout, the
\* entry holds the empty list, computed from no text (version 0), and the
\* request, already resolved, keeps its result.
PhpcsClose ==
    /\ \E i \in 1..Len(phpcs.procs) :
          /\ phpcs.procs[i].op = "getDiagnostics"
          /\ \E out \in IF phpcs.procs[i].failed THEN {NoOutput}
                         ELSE PhpcsOutputs(phpcs.procs[i].uri) :
                LET p == phpcs.procs[i]
                    diagnostics == getDiagnosticsClose(out, p.uri)
                    entry == [version |-> phpcs.version[p.uri], diagnostics |-> diagnostics]
                IN  phpcs' = [phpcs EXCEPT
                                 !.procs = Remove(@, i),
                                 !.provider.cache =
                                     IF p.gen = phpcs.provider.gen THEN (p.uri :> entry) @@ @ ELSE @,
                                 !.computed[p.uri] =
                                     IF p.gen # phpcs.provider.gen THEN @
                                     ELSE IF p.failed THEN 0 ELSE p.version,
                                 !.last = IF p.failed THEN @ ELSE Ended(p, out, diagnostics)]
    /\ UNCHANGED budget
    /\ PhpcsRestUnchanged

\* phpcs.on('error'): the process could not be started; the request
\* resolves with the empty list, and the 'close' event of the process
\* follows.
PhpcsError ==
    /\ \E i \in 1..Len(phpcs.procs) :
          /\ phpcs.procs[i].op = "getDiagnostics"
          /\ ~phpcs.procs[i].failed
          /\ phpcs' = [phpcs EXCEPT
                           !.procs[i].failed = TRUE,
                           !.last = Ended(phpcs.procs[i], SpawnError, <<>>)]
    /\ UNCHANGED budget
    /\ PhpcsRestUnchanged

\* PhpCsProvider.getCodeActions(document, diagnostics)
GetCodeActions ==
    /\ budget > 0
    /\ \E uri \in PhpUris, diagnostics \in ContextDiagnostics :
          phpcs' = [phpcs EXCEPT !.last =
                       ReturnedAtOnce("getCodeActions", uri,
                                      getCodeActions(phpcs.provider, uri, diagnostics))]
    /\ budget' = budget - 1
    /\ PhpcsRestUnchanged

\* PhpCsProvider.fixFile(filePath) up to its await
FixFile ==
    /\ budget > 0
    /\ \E uri \in PhpUris :
          LET s == fixFileStart(phpcs.provider)
          IN  phpcs' = IF s.spawn
                       THEN [phpcs EXCEPT !.procs = Append(@, Proc("fixFile", uri))]
                       ELSE [phpcs EXCEPT !.last = ReturnedAtOnce("fixFile", uri, s.result)]
    /\ budget' = budget - 1
    /\ PhpcsRestUnchanged

\* PhpCsProvider.fixFile after its await: the command has ended.
FixFileDone ==
    /\ \E i \in 1..Len(phpcs.procs) :
          /\ phpcs.procs[i].op = "fixFile"
          /\ \E outcome \in FixerOutcomes :
                phpcs' = [phpcs EXCEPT
                             !.procs = Remove(@, i),
                             !.last = Ended(phpcs.procs[i], outcome, fixFileEnd(outcome))]
    /\ UNCHANGED budget
    /\ PhpcsRestUnchanged

\* PhpCsProvider.formatDocument(document) up to the promise it returns
FormatDocument ==
    /\ budget > 0
    /\ \E uri \in PhpUris :
          LET s == formatDocumentStart(phpcs.provider)
          IN  phpcs' = IF s.spawn
                       THEN [phpcs EXCEPT !.procs = Append(@, Proc("formatDocument", uri))]
                       ELSE [phpcs EXCEPT !.last = ReturnedAtOnce("formatDocument", uri, s.result)]
    /\ budget' = budget - 1
    /\ PhpcsRestUnchanged

\* phpcbf.on('close') of formatDocument
PhpcbfClose ==
    /\ \E i \in 1..Len(phpcs.procs) :
          /\ phpcs.procs[i].op = "formatDocument"
          /\ \E outcome \in FixerOutcomes \ {SpawnError} :
                phpcs' = [phpcs EXCEPT
                             !.procs = Remove(@, i),
                             !.last = Ended(phpcs.procs[i], outcome,
                                            formatDocumentClose(outcome.stdout, ORIGINAL_TEXT))]
    /\ UNCHANGED budget
    /\ PhpcsRestUnchanged

\* phpcbf.on('error') of formatDocument
PhpcbfError ==
    /\ \E i \in 1..Len(phpcs.procs) :
          /\ phpcs.procs[i].op = "formatDocument"
          /\ phpcs' = [phpcs EXCEPT
                           !.procs = Remove(@, i),
                           !.last = Ended(phpcs.procs[i], SpawnError, NullEdits)]
    /\ UNCHANGED budget
    /\ PhpcsRestUnchanged

NextPhpcs ==
    \/ DidChangeConfiguration
    \/ DocumentEdited
    \/ GetDiagnostics
    \/ PhpcsClose
    \/ PhpcsError
    \/ GetCodeActions
    \/ FixFile
    \/ FixFileDone
    \/ FormatDocument
    \/ PhpcbfClose
    \/ PhpcbfError

SpecPhpcs == InitPhpcs /\ [][NextPhpcs]_vars

(***************************************************************************)
(* C18 to C20: the fixer's outcome, one checker per document, the checker  *)
(* that is missing or disabled                                             *)
(***************************************************************************)

\* The fixer ended with one of the exit codes that count as success.
FixerSucceeded(out) == out.kind = "exit" /\ out.code \in {0, 1, 2}

\* C18: a fixFile or formatDocument request whose fixer process ended with
\* exit code 1 or 2 (or 0) is reported as success: fixFile returns true, and
\* formatDocument returns the fixed text the fixer wrote as one edit over
\* the whole document; when the fixer failed in any other way (another exit
\* code, or the process could not be started) fixFile returns false and
\* formatDocument returns no edits.
C18_FixerOutcome ==
    LET l == phpcs.last
    IN  /\ (l.op = "fixFile" /\ l.spawned) => (l.result = FixerSucceeded(l.out))
        /\ (l.op = "formatDocument" /\ l.spawned) =>
              /\ (FixerSucceeded(l.out) /\ l.out.stdout = FIXED_TEXT) =>
                    l.result = Edits(<<[range |-> <<0, 0, 1, 5>>, newText |-> FIXED_TEXT]>>)
              /\ ~FixerSucceeded(l.out) => l.result.isNull

\* The checker processes running for a document.
RunningCheckers(uri) ==
    {i \in 1..Len(phpcs.procs) :
        /\ phpcs.procs[i].op = "getDiagnostics"
        /\ phpcs.procs[i].uri = uri
        /\ ~phpcs.procs[i].failed}

\* C19: at every moment at most one style-checker process is running for
\* any one document.
C19_OneCheckerPerDocument ==
    \A uri \in PhpUris : Cardinality(RunningCheckers(uri)) <= 1

\* The result is the one the method gives when the feature is off.
IsEmptyResult(op, result) ==
    CASE op = "getDiagnostics" -> result = <<>>
      [] op = "getCodeActions" -> result = <<>>
      [] op = "fixFile" -> result = FALSE
      [] op = "formatDocument" -> result.isNull

\* C20: a request made while the checker binary is not found or the checker
\* is disabled by the settings returns the empty result of its method
\* (getDiagnostics and getCodeActions the empty list, fixFile false,
\* formatDocument null) and starts no process.
C20_UnavailableOrDisabledIsSilent ==
    LET l == phpcs.last
    IN  (l.op # "none" /\ (~l.found \/ ~l.setting)) =>
            /\ ~l.spawned
            /\ IsEmptyResult(l.op, l.result)

\* Both binaries are installed, the checker was switched off by a settings
\* change while a checker process of the old provider was running, and a
\* formatting request made after that returned null without a process.
C20_Witness ==
    /\ phpcs.installed.phpcs /\ phpcs.installed.phpcbf
    /\ ~phpcs.setting
    /\ phpcs.provider.gen > 0
    /\ phpcs.last.op = "formatDocument"
    /\ ~phpcs.last.setting
    /\ ~phpcs.last.spawned
    /\ phpcs.last.result.isNull

(***************************************************************************)
(* The handlers of server.ts and the provider registries                   *)
(***************************************************************************)

\* The providers onInitialize registers for every capability, in the order
\* of their registration; nothing is registered when it returns early.
RegisteredProviders(state) == IF state = "ready" THEN <<"yaml", "php">> ELSE <<>>

YAML_SUFFIX == <<".", "y", "a", "m", "l">>

\* canProvide of the registered provider p for a capability
canProvide(p, capability, document) ==
    IF p = "yaml"
    THEN IF capability = "diagnostics"
         THEN YamlDiagnosticProvider_canProvide(document)
         ELSE EndsWith(document.uri, YML_SUFFIX) \/ EndsWith(document.uri, YAML_SUFFIX)
    ELSE document.languageId = "php" \/ EndsWith(document.uri, PHP_SUFFIX)

\* How the provide method of a provider ends for a request: it throws (its
\* promise rejects), it gives null (the empty list for a list capability),
\* or it gives a value, written <<p>> for the provider p.
ProviderEndings == {"throws", "null", "value"}

\* The loop of onDefinition and onHover: the first truthy result is
\* returned, a rejection is logged and the loop goes on; null (<<>>) at the
\* end.
RECURSIVE FirstResult(_, _, _, _)
FirstResult(providers, capability, document, ending) ==
    IF providers = <<>> THEN <<>>
    ELSE LET p == Head(providers)
             rest == FirstResult(Tail(providers), capability, document, ending)
         IN  IF ~canProvide(p, capability, document) THEN rest
             ELSE IF ending[p] = "throws" THEN rest
             ELSE IF ending[p] = "value" THEN <<p>>
             ELSE rest

\* A variant of the loop of onCompletion that ends at the first rejection.
RECURSIVE AllResultsUntilRejection(_, _, _, _)
AllResultsUntilRejection(providers, capability, document, ending) ==
    IF providers = <<>> THEN <<>>
    ELSE LET p == Head(providers)
             rest == AllResultsUntilRejection(Tail(providers), capability, document, ending)
         IN  IF ~canProvide(p, capability, document) THEN rest
             ELSE IF ending[p] = "throws" THEN <<>>
             ELSE IF ending[p] = "value" THEN <<p>> \o rest
             ELSE rest

\* The loop of onCompletion and of the diagnostics handler: the results are
\* pushed in the order of the providers, a rejection is logged.
RECURSIVE AllResults(_, _, _, _)
AllResults(providers, capability, document, ending) ==
    IF providers = <<>> THEN <<>>
    ELSE LET p == Head(providers)
             rest == AllResults(Tail(providers), capability, document, ending)
         IN  IF ~canProvide(p, capability, document) THEN rest
             ELSE IF ending[p] = "throws" THEN rest
             ELSE IF ending[p] = "value" THEN <<p>> \o rest
             ELSE rest

\* What a handler ends in: it returns a result, or it ends in an error
\* nothing catches.
Returned(result) == [threw |-> FALSE, result |-> result]
Threw == [threw |-> TRUE, result |-> <<>>]

\* connection.onCompletion
onCompletion(state, document, ending) ==
    IF ~document.open THEN Returned(<<>>)
    ELSE IF ~isCustomCode(document.uri) THEN Returned(<<>>)
    ELSE Returned(AllResults(RegisteredProviders(state), "completion", document, ending))

\* connection.onDefinition
onDefinition(state, document, ending) ==
    IF ~document.open THEN Returned(<<>>)
    ELSE Returned(FirstResult(RegisteredProviders(state), "definition", document, ending))

\* connection.onHover
onHover(state, document, ending) ==
    IF ~document.open THEN Returned(<<>>)
    ELSE Returned(FirstResult(RegisteredProviders(state), "hover", document, ending))

\* connection.languages.diagnostics.on: the items of the report
onPullDiagnostics(state, document, ending) ==
    IF ~document.open \/ ~isCustomCode(document.uri) THEN Returned(<<>>)
    ELSE Returned(AllResults(RegisteredProviders(state), "diagnostics", document, ending))

\* The parsers and the cache manager exist: onInitialize has reached its
\* scans (state "scanning") or has returned after them (state "ready").
ParsersCreated(state) == state \in {"scanning", "ready"}

\* documents.onDidChangeContent before it reaches the parsers: for a PHP
\* file cacheManager.clearPattern is called, on a cacheManager that is
\* undefined unless onInitialize created it.
onDidChangeContentThrows(state, filePath) ==
    EndsWith(filePath, PHP_SUFFIX) /\ ~ParsersCreated(state)

(***************************************************************************)
(* The handlers of server.ts: the requests of the model and the            *)
(* specification                                                           *)
(***************************************************************************)

MaxNotifications == 1

\* The documents the requests are about: documents.get(uri) is undefined
\* for one the client has not opened.
RequestDocument(uri, languageId, open) == [uri |-> uri, languageId |-> languageId, open |-> open]
RequestDocuments ==
    {RequestDocument(F_CUSTOM_PHP, "php", TRUE),
     RequestDocument(F_CUSTOM_SVC, "yaml", TRUE),
     RequestDocument(F_CUSTOM_SVC, "php", TRUE),
     RequestDocument(F_CUSTOM_ROUTING, "yaml", TRUE),
     RequestDocument(F_CONTRIB_SVC, "yaml", TRUE),
     RequestDocument(F_CONTRIB_SVC, "php", TRUE),
     RequestDocument(F_CUSTOM_SVC, "yaml", FALSE)}

Endings == [{"yaml", "php"} -> ProviderEndings]
UniformEndings == {e \in Endings : e["yaml"] = e["php"]}

\* The requests made between notifications, and the requests made of a
\* server that receives no notification.
RequestsAmongNotifications ==
    [documents |-> {d \in RequestDocuments : d.languageId = "php" \/ ~d.open},
     endings |-> UniformEndings]
RequestsAlone == [documents |-> RequestDocuments, endings |-> Endings]

\* The requests made while onInitialize runs its scans.
RequestsWhileScanning ==
    [documents |-> {RequestDocument(F_CUSTOM_SVC, "yaml", TRUE), RequestDocument(F_CUSTOM_PHP, "php", TRUE)},
     endings |-> {[p \in {"yaml", "php"} |-> "value"]}]

RequestsIn(state, requests) == IF state = "scanning" THEN RequestsWhileScanning ELSE requests
NoEnding == [p \in {"yaml", "php"} |-> "null"]

Request(handler, document, ending) == [handler |-> handler, document |-> document, ending |-> ending]
NoHandlerRequest == Request("none", RequestDocument(<<>>, "", FALSE), NoEnding)

\* The files whose content the client changes.
ChangedFiles == {F_CUSTOM_SVC, F_CONTRIB_SVC, F_CUSTOM_PHP}

IndexUnchanged == UNCHANGED <<cache, scannedFiles, lastOp, expect, raced, handlers>>

\* The workspace whose definition files are those of the custom module.
DiskCustom ==
    [f \in Files |-> IF Includes(f, CUSTOM_MARKER) THEN DiskAll[f] ELSE Absent]

InitHandlers ==
    /\ initialized = FALSE
    /\ disk = DiskCustom
    /\ docs = [f \in Files |-> Closed]
    /\ cache = << >>
    /\ now = 0
    /\ scannedFiles = [k \in KindSet |-> <<>>]
    /\ handlers = <<>>
    /\ lastOp = [k \in KindSet |-> [f \in Files |-> [op |-> "none", n |-> 0, had |-> FALSE, same |-> FALSE]]]
    /\ expect = [k \in KindSet |-> [f \in Files |-> <<>>]]
    /\ raced = [k \in KindSet |-> [f \in Files |-> FALSE]]
    /\ budget = MaxNotifications
    /\ phpcs = None
    /\ pc = "start"
    /\ input = NoHandlerRequest
    /\ output = Returned(<<>>)

\* connection.onInitialize up to its first await: it returns early without
\* a workspace folder and without a Drupal project; otherwise it creates the
\* parsers and the cache manager and calls scanAndIndex of the service
\* parser.  The providers are registered after the last scan.
OnInitialize ==
    /\ pc = "start"
    /\ \E folders \in BOOLEAN, detected \in BOOLEAN :
          LET state == IF ~folders THEN "no_root" ELSE IF ~detected THEN "no_drupal" ELSE "scanning"
          IN  /\ pc' = state
              /\ IF state = "scanning"
                 THEN /\ initialized' = TRUE
                      /\ Commit(CallScans(Ix, "init", Kinds), handlers)
                 ELSE UNCHANGED <<initialized, cache, scannedFiles, lastOp, expect, raced, handlers>>
    /\ UNCHANGED <<disk, docs, now, budget, input, output, phpcs>>

RequestUnchanged ==
    UNCHANGED <<initialized, disk, docs, cache, now, scannedFiles, handlers,
                lastOp, expect, raced, budget, phpcs, pc>>

OnCompletion(requests) ==
    /\ pc # "start"
    /\ \E document \in RequestsIn(pc, requests).documents, ending \in RequestsIn(pc, requests).endings :
          /\ input' = Request("completion", document, ending)
          /\ output' = onCompletion(pc, document, ending)
    /\ RequestUnchanged

OnDefinition(requests) ==
    /\ pc # "start"
    /\ \E document \in RequestsIn(pc, requests).documents, ending \in RequestsIn(pc, requests).endings :
          /\ input' = Request("definition", document, ending)
          /\ output' = onDefinition(pc, document, ending)
    /\ RequestUnchanged

OnHover(requests) ==
    /\ pc # "start"
    /\ \E document \in RequestsIn(pc, requests).documents, ending \in RequestsIn(pc, requests).endings :
          /\ input' = Request("hover", document, ending)
          /\ output' = onHover(pc, document, ending)
    /\ RequestUnchanged

OnPullDiagnostics(requests) ==
    /\ pc # "start"
    /\ \E document \in RequestsIn(pc, requests).documents, ending \in RequestsIn(pc, requests).endings :
          /\ input' = Request("diagnostics", document, ending)
          /\ output' = onPullDiagnostics(pc, document, ending)
    /\ RequestUnchanged

\* documents.onDidChangeContent for the document of file f: it ends in a
\* TypeError at cacheManager.clearPattern, or it goes on to the parsers, which
\* exist once onInitialize has created them.
OnDidChangeContent ==
    /\ pc # "start"
    /\ budget > 0
    /\ Len(handlers) < MaxInFlight
    /\ budget' = budget - 1
    /\ \E f \in ChangedFiles :
          /\ input' = Request("didChangeContent", RequestDocument(f, "", TRUE), NoEnding)
          /\ IF onDidChangeContentThrows(pc, f)
             THEN /\ output' = Threw
                  /\ IndexUnchanged
                  /\ UNCHANGED docs
             ELSE /\ output' = Returned(<<>>)
                  /\ IF ~ParsersCreated(pc)
                     THEN IndexUnchanged /\ UNCHANGED docs
                     ELSE IF f \notin Files
                     THEN /\ Commit(Run([Ix EXCEPT !.cache = clearPattern(clearPattern(@, CLASS_PATTERN), METHOD_PATTERN)],
                                        "content", <<[file |-> f, type |-> 2]>>, <<>>,
                                        Awaited(handlers, 0)), handlers)
                          /\ UNCHANGED docs
                     ELSE \E c \in Contents(f) :
                             /\ docs' = [docs EXCEPT ![f] = c]
                             /\ Commit(Run(Ix, "content", <<[file |-> f, type |-> 2]>>,
                                           EventKinds(f), Awaited(handlers, 0)), handlers)
    /\ UNCHANGED <<initialized, disk, now, phpcs, pc>>

\* connection.onDidChangeWatchedFiles: every branch tests its parser, so
\* nothing is done when the parsers were not created.
OnDidChangeWatchedFiles ==
    /\ pc # "start"
    /\ budget > 0
    /\ Len(handlers) < MaxInFlight
    /\ budget' = budget - 1
    /\ \E evs \in WatchedBatches :
          /\ input' = Request("didChangeWatchedFiles", RequestDocument(evs[1].file, "", TRUE), NoEnding)
          /\ output' = Returned(<<>>)
          /\ IF ParsersCreated(pc)
             THEN Commit(Run(Ix, "watched", evs, EventKinds(evs[1].file), Awaited(handlers, 0)), handlers)
             ELSE IndexUnchanged
    /\ UNCHANGED <<initialized, disk, docs, now, phpcs, pc>>

NextHandlers ==
    \/ OnInitialize
    \/ \E i \in 1..MaxInFlight : ScanStep(i)
    \/ OnCompletion(RequestsAmongNotifications)
    \/ OnDefinition(RequestsAmongNotifications)
    \/ OnHover(RequestsAmongNotifications)
    \/ OnPullDiagnostics(RequestsAmongNotifications)
    \/ OnDidChangeContent
    \/ OnDidChangeWatchedFiles
    \/ \E i \in 1..MaxInFlight : Resume(i)

SpecHandlers == InitHandlers /\ [][NextHandlers]_vars

\* The server without notifications: the initialization, in a workspace
\* whose definition files are those of the custom module, and the requests.
InitDispatch ==
    /\ initialized = FALSE
    /\ disk = DiskCustom
    /\ docs = [f \in Files |-> Closed]
    /\ cache = << >>
    /\ now = 0
    /\ scannedFiles = [k \in KindSet |-> <<>>]
    /\ handlers = <<>>
    /\ lastOp = [k \in KindSet |-> [f \in Files |-> [op |-> "none", n |-> 0, had |-> FALSE, same |-> FALSE]]]
    /\ expect = [k \in KindSet |-> [f \in Files |-> <<>>]]
    /\ raced = [k \in KindSet |-> [f \in Files |-> FALSE]]
    /\ budget = 0
    /\ phpcs = None
    /\ pc = "start"
    /\ input = NoHandlerRequest
    /\ output = Returned(<<>>)

NextDispatch ==
    \/ OnInitialize
    \/ \E i \in 1..MaxInFlight : ScanStep(i)
    \/ OnCompletion(RequestsAlone)
    \/ OnDefinition(RequestsAlone)
    \/ OnHover(RequestsAlone)
    \/ OnPullDiagnostics(RequestsAlone)

SpecDispatch == InitDispatch /\ [][NextDispatch]_vars

(***************************************************************************)
(* C21 and C28: no unhandled error, and the dispatch to the providers      *)
(***************************************************************************)

\* C21: no handler ends in an unhandled error, and after an onInitialize that
\* found no workspace root or no Drupal project every handler yields an
\* empty or null result.
C21_NoUnhandledError ==
    /\ ~output.threw
    /\ pc \in {"no_root", "no_drupal"} => output.result = <<>>

\* The providers, in registration order, that can provide for the request
\* and whose provide method gives a value.
Contributing(capability, document, ending) ==
    SelectSeq(<<"yaml", "php">>,
              LAMBDA p : canProvide(p, capability, document) /\ ending[p] = "value")

\* The request reaches the loop over the providers: the document is open,
\* and for completion and diagnostics it is custom code.
Dispatched(request) ==
    /\ request.document.open
    /\ request.handler \in {"completion", "diagnostics"} => isCustomCode(request.document.uri)

\* C28: after a complete initialization, a definition or hover request
\* returns the value of the first provider, in registration order, that can
\* provide and gives a value (null if there is none; a provider that throws
\* counts as null), and a completion or diagnostics request returns the
\* values of all such providers in registration order.
C28_ProviderDispatch ==
    [][(pc = "ready" /\ <<input, output>>' # <<input, output>> /\ Dispatched(input')) =>
          LET values == Contributing(input'.handler, input'.document, input'.ending)
          IN  /\ input'.handler \in {"definition", "hover"} =>
                    output' = Returned(IF values = <<>> THEN <<>> ELSE <<Head(values)>>)
              /\ input'.handler \in {"completion", "diagnostics"} => output' = Returned(values)]_vars

\* A completion request for a document both providers can provide for: the
\* first provider throws, the second gives a value, which is returned.
C28_Witness ==
    /\ pc = "ready"
    /\ input.handler = "completion"
    /\ input.document = RequestDocument(F_CUSTOM_SVC, "php", TRUE)
    /\ input.ending["yaml"] = "throws"
    /\ input.ending["php"] = "value"
    /\ output = Returned(<<"php">>)

(***************************************************************************)
(* The lookups as operations on the cache, the clock and the cleanup timer *)
(***************************************************************************)

MaxLookupOps == 2

\* The cache after getService: one cache.get per scanned file up to the
\* first file that has the name.
RECURSIVE CacheAfterGetService(_, _, _, _)
CacheAfterGetService(c, files, t, serviceName) ==
    IF files = <<>> THEN c
    ELSE LET key == CacheKey("service", Head(files))
             services == IF CacheLive(c, key, t) THEN CacheGet(c, key, t) ELSE <<>>
             after == CacheAfterGet(c, key, t)
         IN  IF \E i \in 1..Len(services) : services[i].name = serviceName
             THEN after
             ELSE CacheAfterGetService(after, Tail(files), t, serviceName)

LookupRestUnchanged ==
    UNCHANGED <<initialized, disk, docs, scannedFiles, handlers, lastOp, expect, raced,
                budget, input, output, phpcs>>

\* A provider calls getAll or the names lookup of parser k.
LookupAll(k) ==
    /\ ProvidersRegistered
    /\ pc \in {None, "tick", "cleanup"}
    /\ cache' = CacheAfterGetAll(cache, k, scannedFiles, now)
    /\ pc' = "lookup"
    /\ UNCHANGED now
    /\ LookupRestUnchanged

\* A provider calls getService(n).
LookupService(n) ==
    /\ ProvidersRegistered
    /\ pc \in {None, "tick", "cleanup"}
    /\ cache' = CacheAfterGetService(cache, scannedFiles["service"], now, n)
    /\ pc' = "lookup"
    /\ UNCHANGED now
    /\ LookupRestUnchanged

\* Time passes, the default TTL and a millisecond: a step of the clock that
\* is longer than the scans of a run take.
ClockTick ==
    /\ initialized
    /\ ~ScanInFlight
    /\ now < MaxLookupOps * (DEFAULT_TTL + 1)
    /\ now' = now + DEFAULT_TTL + 1
    /\ pc' = "tick"
    /\ UNCHANGED cache
    /\ LookupRestUnchanged

\* The cleanup timer of onInitialize fires, which it does every five
\* minutes: cacheManager.cleanup()
CleanupTimer ==
    /\ initialized
    /\ ~ScanInFlight
    /\ pc \in {"tick", "lookup"}
    /\ cache' = CacheCleanup(cache, now)
    /\ pc' = "cleanup"
    /\ UNCHANGED now
    /\ LookupRestUnchanged

\* The server with its file events, the lookups of the providers, the clock
\* and the cleanup timer.
NextLookup ==
    \/ Initialize
    \/ \E i \in 1..MaxInFlight : ScanStep(i)
    \/ \E f \in EditedFiles : \E c \in Contents(f) : DidChangeContent(f, c)
    \/ \E evs \in WatchedBatches : DidChangeWatchedFiles(evs)
    \/ \E i \in 1..MaxInFlight : Resume(i)
    \/ \E f \in DiskFiles : \E c \in Contents(f) : DiskWrite(f, c)
    \/ \E f \in DiskFiles : DiskUnlink(f)
    \/ \E k \in KindSet : LookupAll(k)
    \/ \E n \in Names : LookupService(n)
    \/ ClockTick
    \/ CleanupTimer

\* The workspace with all its files, before onInitialize.
InitLookup ==
    /\ initialized = FALSE
    /\ disk = DiskAll
    /\ docs = [f \in Files |-> Closed]
    /\ cache = << >>
    /\ now = 0
    /\ scannedFiles = [k \in KindSet |-> <<>>]
    /\ handlers = <<>>
    /\ lastOp = [k \in KindSet |-> [f \in Files |-> [op |-> "none", n |-> 0, had |-> FALSE, same |-> FALSE]]]
    /\ expect = [k \in KindSet |-> [f \in Files |-> <<>>]]
    /\ raced = [k \in KindSet |-> [f \in Files |-> FALSE]]
    /\ budget = MaxLookupOps
    /\ phpcs = None
    /\ pc = None
    /\ input = None
    /\ output = None

SpecLookup == InitLookup /\ [][NextLookup]_vars

(***************************************************************************)
(* Validation passes between file events                                   *)
(***************************************************************************)

MaxPasses == 3

\* The documents the passes are made for: one line of a links file or of a
\* PHP file of the custom code that refers to x or to y.
PassDocuments ==
    {d \in Documents :
        /\ Len(d.specs) = 1
        /\ d.uri \in {F_CUSTOM_LINKS, F_CUSTOM_PHP}
        /\ d.specs[1].names \in {<<NAME_X>>, <<NAME_Y>>}}

\* History of a pass: the document, the index state the pass read, whether
\* the pass before it was for the same text, and what that pass returned.
Pass(document, c, scanned, same, before) ==
    [document |-> document, cache |-> c, scanned |-> scanned, same |-> same, before |-> before]

NoPass == Pass(NoDocument, << >>, [k \in KindSet |-> <<>>], FALSE, <<>>)

\* A pull-diagnostics request for an open document.
Validate(document) ==
    /\ ProvidersRegistered
    /\ budget > 0
    /\ budget' = budget - 1
    /\ pc' = IF pc = "done" THEN "redone" ELSE "done"
    /\ input' = Pass(document, cache, scannedFiles,
                     pc # "ready" /\ input.document = document, output)
    /\ output' = onDiagnostics(document, cache, scannedFiles, now)
    /\ UNCHANGED <<initialized, disk, docs, cache, now, scannedFiles, handlers,
                   lastOp, expect, raced, phpcs>>

InitPasses ==
    /\ initialized = FALSE
    /\ disk = DiskAll
    /\ docs = [f \in Files |-> Closed]
    /\ cache = << >>
    /\ now = 0
    /\ scannedFiles = [k \in KindSet |-> <<>>]
    /\ handlers = <<>>
    /\ lastOp = [k \in KindSet |-> [f \in Files |-> [op |-> "none", n |-> 0, had |-> FALSE, same |-> FALSE]]]
    /\ expect = [k \in KindSet |-> [f \in Files |-> <<>>]]
    /\ raced = [k \in KindSet |-> [f \in Files |-> FALSE]]
    /\ budget = MaxPasses
    /\ phpcs = None
    /\ pc = "ready"
    /\ input = NoPass
    /\ output = <<>>

NextPasses ==
    \/ Initialize
    \/ \E i \in 1..MaxInFlight : ScanStep(i)
    \/ \E document \in PassDocuments : Validate(document)
    \/ \E evs \in WatchedBatches : DidChangeWatchedFiles(evs)
    \/ \E i \in 1..MaxInFlight : Resume(i)

SpecPasses == InitPasses /\ [][NextPasses]_vars

(***************************************************************************)
(* Live re-parses of files that cannot be parsed                           *)
(***************************************************************************)

\* The file system: a file gets a text with a syntax error, or becomes
\* unreadable.
DiskDamage(f, c) ==
    /\ budget >= EventCost
    /\ disk[f] # c
    /\ budget' = budget - EventCost
    /\ disk' = [disk EXCEPT ![f] = c]
    /\ UNCHANGED <<initialized, docs, cache, now, scannedFiles, handlers, lastOp, expect, raced>>
    /\ PureUnchanged

NextReparse ==
    \/ Initialize
    \/ \E i \in 1..MaxInFlight : ScanStep(i)
    \/ \E f \in EditedFiles : \E c \in Contents(f) : DidChangeContent(f, c)
    \/ \E evs \in WatchedBatches : DidChangeWatchedFiles(evs)
    \/ \E i \in 1..MaxInFlight : Resume(i)
    \/ \E f \in DiskFiles : DiskUnlink(f)
    \/ \E f \in DiskFiles : \E c \in BrokenContents(f) \cup {Malformed} : DiskDamage(f, c)

SpecReparse == Init /\ [][NextReparse]_vars

(***************************************************************************)
(* Properties of the parsers' handlers and lookups (C22 to C30)            *)
(***************************************************************************)

\* What the three lookups of parser k return in the index state (c, scanned):
\* getAll, the lookup by name for every name of the model, and the names.
Lookups(k, c, scanned) ==
    [all |-> getAll(k, c, scanned, now),
     byName |-> [n \in Names |->
                    IF k = "service" THEN getService(c, scanned, now, n)
                    ELSE <<LookupHits(k, c, scanned, now, n)>>],
     names |-> CASE k = "service" -> getAllServiceNames(c, scanned, now)
                 [] k = "route" -> getAllRouteNames(c, scanned, now)
                 [] k = "link" -> getAllLinkNames(c, scanned, now)]

\* C22: a handleFileChange for a file whose stored list is already the one
\* its content on disk parses to (a second change event for an unchanged
\* file) leaves the results of getAll, of the lookup by name and of the names
\* lookup unchanged, both in the step that purges and re-parses and in the
\* step after the await that adds the file to scannedFiles.
C22_ReparseIsIdempotent ==
    [][\A k \in KindSet :
          /\ \A f \in Files :
                (lastOp'[k][f].n # lastOp[k][f].n /\ lastOp'[k][f].same)
                => Lookups(k, cache', scannedFiles') = Lookups(k, cache, scannedFiles)
          /\ \A i \in 1..Len(handlers) :
                (/\ handlers[i].src \notin ScanSources
                 /\ handlers[i].phase = "parse"
                 /\ handlers[i].kinds[1] = k
                 /\ handlers' = [handlers EXCEPT ![i].phase = "return"]
                 /\ lastOp[k][handlers[i].events[1].file].same
                 /\ lastOp[k][handlers[i].events[1].file].op \in {"content", "change"})
                => Lookups(k, cache', scannedFiles') = Lookups(k, cache, scannedFiles)]_vars

\* A re-parse of an unchanged file with two entities, other files being
\* scanned after it, has completed.
C22_Witness ==
    \E k \in KindSet, f \in Files :
        /\ lastOp[k][f].op \in {"content", "change"}
        /\ lastOp[k][f].same
        /\ handlers = <<>>
        /\ Len(Visible(k, f)) = 2
        /\ Len(scannedFiles[k]) > 1
        /\ scannedFiles[k][Len(scannedFiles[k])] # f

\* C23: after the initial scan, a step of a lookup (pc becomes "lookup"), of
\* the cleanup timer, of the clock or of the file system, none of which runs
\* handleFileChange or handleFileDelete, leaves the cache entries and the scanned files of every parser, and
\* so the results of the lookups, as they were.
C23_LookupsAreReadOnly ==
    [][(/\ initialized
        /\ (pc' # pc \/ now' # now \/ disk' # disk))
       => /\ cache' = cache
          /\ scannedFiles' = scannedFiles
          /\ \A k \in KindSet :
                getAll(k, cache', scannedFiles', now') = getAll(k, cache, scannedFiles, now)]_vars

\* A lookup ran, after the default TTL had passed since the scan and the
\* events, on an index that holds entities of a live re-parse.
C23_Witness ==
    /\ pc = "lookup"
    /\ now > DEFAULT_TTL
    /\ \E f \in Files :
          /\ lastOp["service"][f].op \in {"content", "change"}
          /\ Visible("service", f) # <<>>
    /\ Len(getAll("service", cache, scannedFiles, now)) > 1

\* C24: what a validation pass (a step that changes pc) returns is the list
\* computed from the document's text and the index state at the pass, whatever
\* the passes and events before it: a pass with the text and the index state
\* of the pass before it returns the same list, and for every name with no
\* entry in the index (a purged one included) and no allowlist prefix the pass
\* reports each occurrence.
C24_RecomputedFromScratch ==
    [][pc' # pc =>
          LET document == input'.document
          IN  /\ output' = onDiagnostics(document, cache, scannedFiles, now)
              /\ (/\ input'.same
                  /\ input.cache = cache
                  /\ input.scanned = scannedFiles) => output' = output
              /\ \A k \in KindSet : \A n \in RefNames :
                    (n \notin IndexedNames(k) /\ ~HasAllowlistPrefix(n)) =>
                        Reported(output', k, n) = Occurrences(document.specs, k, n)]_vars

\* Two passes over the same text with a purge in between: the first found
\* nothing to report, the second reports the reference to a name whose file
\* was deleted from the index.
C24_Witness ==
    /\ pc = "redone"
    /\ input.same
    /\ input.before = <<>>
    /\ input.cache = cache
    /\ input.scanned = scannedFiles
    /\ \E k \in KindSet, f \in Files :
          /\ lastOp[k][f].op = "delete"
          /\ NAME_X \notin IndexedNames(k)
          /\ Occurrences(input.document.specs, k, NAME_X) >= 1
          /\ Reported(output, k, NAME_X) >= 1

\* C26: every entity stored under the index entry of file f names f as its
\* sourceFile and has the tier determineSourceType gives for f, and the list
\* stored under the entry is the complete list of one parse of f: the
\* entities parseFile computes for one content of the file.
C26_EntryIsOneParseOfItsFile ==
    \A k \in KindSet, f \in Files :
        KeyTable[k][f] \in DOMAIN cache =>
            LET stored == cache[KeyTable[k][f]].value
            IN  /\ \A i \in 1..Len(stored) :
                      /\ stored[i].sourceFile = f
                      /\ stored[i].sourceType = determineSourceType(f, DrupalRoot)
                /\ \E c \in AllContents :
                      /\ ParseTable[k][f][c].stored
                      /\ stored = ParseTable[k][f][c].entities

\* The entry of a custom file holds the two entities of a live re-parse that
\* replaced a list of one entity, next to the entry of a contrib file.
C26_Witness ==
    \E f \in Files, g \in Files :
        /\ lastOp["service"][f].op \in {"content", "change"}
        /\ lastOp["service"][f].had
        /\ KeyTable["service"][f] \in DOMAIN cache
        /\ Len(cache[KeyTable["service"][f]].value) = 2
        /\ cache[KeyTable["service"][f]].value[1].sourceType = "custom"
        /\ KeyTable["service"][g] \in DOMAIN cache
        /\ cache[KeyTable["service"][g]].value[1].sourceType = "contrib"

\* The file cannot be read or parsed: it is not there, reading it or parsing
\* it throws, or its text has a syntax error.
ReparseFails(f) == disk[f].state \in {"absent", "throws"} \/ disk[f].errors

\* C29: a step in which a handleFileChange starts for a file that cannot be
\* read or parsed ends with no entity of that file in the index and with the
\* entities of every other file as they were.
C29_FailedReparseLeavesNothing ==
    [][\A k \in KindSet, f \in Files :
          (lastOp'[k][f].n # lastOp[k][f].n /\ ReparseFails(f))
          => /\ VisibleIn(k, f, cache', scannedFiles') = <<>>
             /\ \A g \in Files \ {f} :
                   VisibleIn(k, g, cache', scannedFiles') = Visible(k, g)]_vars

\* C30: when a handleFileDelete of a file ran while a handleFileChange of the
\* file was suspended at its await, and no handleFileChange for the file
\* started since, then once that call has completed getAll returns no entity
\* of the file and the lookup of a name defined in no other file misses.
C30_DeleteOvertakesReparse ==
    \A k \in KindSet, f \in Files :
        (lastOp[k][f].op = "delete" /\ raced[k][f] /\ ~InFlight(k, f)) =>
            /\ Visible(k, f) = <<>>
            /\ ~\E i \in 1..Len(getAll(k, cache, scannedFiles, now)) :
                    getAll(k, cache, scannedFiles, now)[i].sourceFile = f
            /\ \A n \in Names :
                  ~DefinedElsewhere(k, n, f) => ~LookupHits(k, cache, scannedFiles, now, n)

\* The overtaken handleFileChange has completed and recorded the file as
\* scanned; the file is on disk with its two services, and y is defined in
\* no other file.
C30_Witness ==
    \E k \in KindSet, f \in Files :
        /\ lastOp[k][f].op = "delete"
        /\ raced[k][f]
        /\ handlers = <<>>
        /\ SetHas(scannedFiles[k], f)
        /\ ParseTable[k][f][disk[f]].stored
        /\ Len(ParseTable[k][f][disk[f]].entities) = 2
        /\ ~DefinedElsewhere(k, NAME_Y, f)
        /\ ~LookupHits(k, cache, scannedFiles, now, NAME_Y)

(***************************************************************************)
(* BaseClassResolver: from a class name to the file of the class           *)
(***************************************************************************)

\* String.prototype.split for a one-character separator
RECURSIVE SplitOn(_, _)
SplitOn(s, ch) ==
    IF \A i \in 1..Len(s) : s[i] # ch THEN <<s>>
    ELSE LET i == CHOOSE i \in 1..Len(s) : s[i] = ch /\ \A j \in 1..(i - 1) : s[j] # ch
         IN  <<SubSeq(s, 1, i - 1)>> \o SplitOn(SubSeq(s, i + 1, Len(s)), ch)

\* Array.prototype.join, and path.join for segments that need no
\* normalisation
RECURSIVE JoinWith(_, _)
JoinWith(parts, sep) ==
    IF parts = <<>> THEN <<>>
    ELSE IF Len(parts) = 1 THEN parts[1]
    ELSE parts[1] \o sep \o JoinWith(Tail(parts), sep)

PathJoin(segments) == JoinWith(segments, <<"/">>)

\* null, or a path
NoPath == [found |-> FALSE, path |-> <<>>]
FoundPath(p) == [found |-> TRUE, path |-> p]

\* The first path of a list that exists (fs.existsSync), or null
RECURSIVE FirstExisting(_, _)
FirstExisting(locations, existing) ==
    IF locations = <<>> THEN NoPath
    ELSE IF Head(locations) \in existing THEN FoundPath(Head(locations))
    ELSE FirstExisting(Tail(locations), existing)

\* const locations = [...]: custom, contrib, then modules/<module>
ModuleLocations(moduleName, relativePath) ==
    <<PathJoin(<<DrupalRoot, <<"m", "o", "d", "u", "l", "e", "s">>, <<"c", "u", "s", "t", "o", "m">>, moduleName, <<"s", "r", "c">>, relativePath \o <<".", "p", "h", "p">>>>),
      PathJoin(<<DrupalRoot, <<"m", "o", "d", "u", "l", "e", "s">>, <<"c", "o", "n", "t", "r", "i", "b">>, moduleName, <<"s", "r", "c">>, relativePath \o <<".", "p", "h", "p">>>>),
      PathJoin(<<DrupalRoot, <<"m", "o", "d", "u", "l", "e", "s">>, moduleName, <<"s", "r", "c">>, relativePath \o <<".", "p", "h", "p">>>>)>>

\* A variant that tries the contrib directory before the custom one.
resolveClassPathContribFirst(className, existing) ==
    LET parts == SplitOn(className, "\\")
        relativePath == JoinWith(SubSeq(parts, 3, Len(parts)), <<"/">>)
    IN  IF Len(parts) >= 2 /\ parts[1] = <<"D", "r", "u", "p", "a", "l">> /\ parts[2] = <<"C", "o", "r", "e">>
        THEN FoundPath(PathJoin(<<DrupalRoot, <<"c", "o", "r", "e">>, <<"l", "i", "b">>, <<"D", "r", "u", "p", "a", "l">>, <<"C", "o", "r", "e">>, relativePath \o <<".", "p", "h", "p">>>>))
        ELSE IF parts[1] = <<"D", "r", "u", "p", "a", "l">> /\ Len(parts) >= 3
        THEN LET locations == ModuleLocations(parts[2], relativePath)
             IN  FirstExisting(<<locations[2], locations[1], locations[3]>>, existing)
        ELSE NoPath

\* BaseClassResolver.resolveClassPath; existing is the set of the paths for
\* which fs.existsSync is true.
resolveClassPath(className, existing) ==
    LET parts == SplitOn(className, "\\")
        relativePath == JoinWith(SubSeq(parts, 3, Len(parts)), <<"/">>)
    IN  IF Len(parts) >= 2 /\ parts[1] = <<"D", "r", "u", "p", "a", "l">> /\ parts[2] = <<"C", "o", "r", "e">>
        THEN FoundPath(PathJoin(<<DrupalRoot, <<"c", "o", "r", "e">>, <<"l", "i", "b">>, <<"D", "r", "u", "p", "a", "l">>, <<"C", "o", "r", "e">>, relativePath \o <<".", "p", "h", "p">>>>))
        ELSE IF parts[1] = <<"D", "r", "u", "p", "a", "l">> /\ Len(parts) >= 3
        THEN FirstExisting(ModuleLocations(parts[2], relativePath), existing)
        ELSE NoPath

\* PhpDefinitionProvider.provideDefinition, "Priority: class definition": the
\* file of the service's class when resolveClassPath gives a path that
\* exists; NoPath stands for the fall-back to the YAML definition.
ClassDefinition(className, existing) ==
    LET classPath == resolveClassPath(className, existing)
    IN  IF classPath.found /\ classPath.path \in existing THEN classPath ELSE NoPath

\* HoverContentBuilder.buildServiceHover, "Class with clickable link": the
\* path the link of the hover points to, used as resolveClassPath returns it,
\* with no test that the file exists; NoPath stands for the class name shown
\* without a link.
ServiceHoverLink(className, existing) == resolveClassPath(className, existing)

\* PhpHoverProvider.provideHover, "Class with clickable link": the same, in
\* the hover of a service name in PHP code.
PhpHoverLink(className, existing) == resolveClassPath(className, existing)

\* YamlDefinitionProvider.resolveClassDefinition: the file of the location it
\* returns, used as resolveClassPath returns it, with no test that the file
\* exists; NoPath stands for null.
resolveClassDefinitionPath(className, existing) == resolveClassPath(className, existing)

\* The places that resolve the class of a service to a file.
ClassCallers == {"definition", "serviceHover", "phpHover", "classDefinition"}

CLASS_MODULE == <<"D", "r", "u", "p", "a", "l", "\\", "a", "\\", "S">>
CLASS_MODULE_SUB == <<"D", "r", "u", "p", "a", "l", "\\", "a", "\\", "S", "u", "b", "\\", "S">>
CLASS_CORE == <<"D", "r", "u", "p", "a", "l", "\\", "C", "o", "r", "e", "\\", "L", "o", "g", "g", "e", "r", "\\", "L">>
CLASS_TWO_PARTS == <<"D", "r", "u", "p", "a", "l", "\\", "a">>
CLASS_OTHER == <<"S", "y", "m", "f", "o", "n", "y", "\\", "X", "\\", "Y">>
CLASS_LEADING == <<"\\", "D", "r", "u", "p", "a", "l", "\\", "a", "\\", "S">>

ClassNames ==
    {CLASS_MODULE, CLASS_MODULE_SUB, CLASS_CORE, CLASS_TWO_PARTS, CLASS_OTHER, CLASS_LEADING}

PATH_CUSTOM == <<"/", "w", "/", "m", "o", "d", "u", "l", "e", "s", "/", "c", "u", "s", "t", "o", "m", "/", "a", "/", "s", "r", "c", "/", "S", ".", "p", "h", "p">>
PATH_CONTRIB == <<"/", "w", "/", "m", "o", "d", "u", "l", "e", "s", "/", "c", "o", "n", "t", "r", "i", "b", "/", "a", "/", "s", "r", "c", "/", "S", ".", "p", "h", "p">>
PATH_DEFAULT == <<"/", "w", "/", "m", "o", "d", "u", "l", "e", "s", "/", "a", "/", "s", "r", "c", "/", "S", ".", "p", "h", "p">>
PATH_CUSTOM_SUB == <<"/", "w", "/", "m", "o", "d", "u", "l", "e", "s", "/", "c", "u", "s", "t", "o", "m", "/", "a", "/", "s", "r", "c", "/", "S", "u", "b", "/", "S", ".", "p", "h", "p">>
PATH_CORE_MODULE == <<"/", "w", "/", "c", "o", "r", "e", "/", "m", "o", "d", "u", "l", "e", "s", "/", "a", "/", "s", "r", "c", "/", "S", ".", "p", "h", "p">>
PATH_CORE_LIB == <<"/", "w", "/", "c", "o", "r", "e", "/", "l", "i", "b", "/", "D", "r", "u", "p", "a", "l", "/", "C", "o", "r", "e", "/", "L", "o", "g", "g", "e", "r", "/", "L", ".", "p", "h", "p">>

ClassPaths ==
    {PATH_CUSTOM, PATH_CONTRIB, PATH_DEFAULT, PATH_CUSTOM_SUB, PATH_CORE_MODULE, PATH_CORE_LIB}

\* A request of one of the callers on a service whose class is className, in
\* a workspace where the files of existing exist.
InitClass ==
    /\ IdleServer
    /\ phpcs = None
    /\ pc = "ready"
    /\ input \in [caller : ClassCallers, className : ClassNames, existing : SUBSET ClassPaths]
    /\ output = NoPath

\* The request: the file the caller hands to the editor for the class.
ResolveClass ==
    /\ pc = "ready"
    /\ pc' = "done"
    /\ output' = CASE input.caller = "definition" -> ClassDefinition(input.className, input.existing)
                   [] input.caller = "serviceHover" -> ServiceHoverLink(input.className, input.existing)
                   [] input.caller = "phpHover" -> PhpHoverLink(input.className, input.existing)
                   [] input.caller = "classDefinition" -> resolveClassDefinitionPath(input.className, input.existing)
    /\ UNCHANGED input
    /\ ServerUnchanged

NextClass == ResolveClass

SpecClass == InitClass /\ [][NextClass]_vars

(***************************************************************************)
(* C25: the order of the candidate locations                               *)
(***************************************************************************)

\* The three candidate locations of a class Drupal\<module>\<rest>: the
\* custom, the contrib and the default module directory.
CandidateLocations(className) ==
    LET parts == SplitOn(className, "\\")
    IN  IF Len(parts) >= 3 /\ parts[1] = <<"D", "r", "u", "p", "a", "l">>
        THEN ModuleLocations(parts[2], JoinWith(SubSeq(parts, 3, Len(parts)), <<"/">>))
        ELSE <<>>

\* C25 as stated: the resolution of a class returns the first of the three
\* candidate locations (custom, contrib, default module directory) that
\* exists, and no path when none of them exists.
C25_ThreeCandidatesInOrder ==
    pc = "done" => output = FirstExisting(CandidateLocations(input.className), input.existing)

IsCoreClass(className) ==
    LET parts == SplitOn(className, "\\")
    IN  Len(parts) >= 2 /\ parts[1] = <<"D", "r", "u", "p", "a", "l">> /\ parts[2] = <<"C", "o", "r", "e">>

\* The file of a class of the namespace Drupal\Core.
CoreLocation(className) ==
    LET parts == SplitOn(className, "\\")
    IN  <<"/", "w", "/", "c", "o", "r", "e", "/", "l", "i", "b", "/", "D", "r", "u", "p", "a", "l", "/", "C", "o", "r", "e", "/">>
            \o JoinWith(SubSeq(parts, 3, Len(parts)), <<"/">>) \o <<".", "p", "h", "p">>

\* C25 amended: the resolution gives a class of the namespace Drupal\Core its
\* file under core/lib/Drupal/Core, whether that file exists or not, and any
\* other class the first of its three candidate locations that exists, no
\* path when none exists. The hovers and the class definition of the YAML
\* provider hand out what the resolution gives, so for a Drupal\Core class
\* possibly a file that does not exist; the definition of the PHP provider
\* hands it out only when the file exists, and no path otherwise.
C25_ClassResolution ==
    pc = "done" =>
        LET resolved == IF IsCoreClass(input.className)
                        THEN FoundPath(CoreLocation(input.className))
                        ELSE FirstExisting(CandidateLocations(input.className), input.existing)
        IN  IF input.caller = "definition"
            THEN output = IF resolved.found /\ resolved.path \in input.existing THEN resolved ELSE NoPath
            ELSE output = resolved

\* A hover on a service whose module class is missing in the custom
\* directory and present in the contrib and in the default one: the link
\* points to the contrib file.
C25_Witness ==
    /\ pc = "done"
    /\ input.caller = "serviceHover"
    /\ input.className = CLASS_MODULE
    /\ PATH_CUSTOM \notin input.existing
    /\ {PATH_CONTRIB, PATH_DEFAULT} \subseteq input.existing
    /\ output = FoundPath(PATH_CONTRIB)

(***************************************************************************)
(* From the text of a services file to the key lines of its entities       *)
(***************************************************************************)

\* The longest run of service definitions in a text of the model.
MaxDefinitions == 2

\* The file's content: its lines joined by line feeds.
ContentOf(lines) == JoinWith(lines, <<"\n">>)

\* YAML.LineCounter after the parse: the offsets (0-based) at which the lines
\* start.
LineStarts(content) ==
    LET feeds == SelectSeq([i \in 1..Len(content) |-> i], LAMBDA i : content[i] = "\n")
    IN  <<0>> \o feeds

\* A variant of linePos that counts the lines from 0.
linePosLineFromZero(lineStarts, offset) ==
    Cardinality({i \in 1..Len(lineStarts) : lineStarts[i] <= offset}) - 1

\* LineCounter.linePos(offset).line: the 1-based number of the last line that
\* starts at or before the offset.
linePosLine(lineStarts, offset) ==
    Cardinality({i \in 1..Len(lineStarts) : lineStarts[i] <= offset})

\* The offset (0-based) of the first character of line i.
RECURSIVE OffsetOfLine(_, _)
OffsetOfLine(lines, i) ==
    IF i = 1 THEN 0 ELSE OffsetOfLine(lines, i - 1) + Len(lines[i - 1]) + 1

\* The characters U+0020 to U+007E, in the order of their code units; the
\* grave accent, which no string of the model can hold, by its name.
Printable ==
    <<" ", "!", "\"", "#", "$", "%", "&", "'", "(", ")", "*", "+", ",", "-", ".", "/",
      "0", "1", "2", "3", "4", "5", "6", "7", "8", "9", ":", ";", "<", "=", ">", "?",
      "@", "A", "B", "C", "D", "E", "F", "G", "H", "I", "J", "K", "L", "M", "N", "O",
      "P", "Q", "R", "S", "T", "U", "V", "W", "X", "Y", "Z", "[", "\\", "]", "^", "_",
      "U+0060", "a", "b", "c", "d", "e", "f", "g", "h", "i", "j", "k", "l", "m", "n", "o",
      "p", "q", "r", "s", "t", "u", "v", "w", "x", "y", "z", "{", "|", "}", "~">>

HexDigits == <<"0", "1", "2", "3", "4", "5", "6", "7", "8", "9", "A", "B", "C", "D", "E", "F">>

\* The value of a digit of a numeral in radix 16 or less, 16 for any other
\* character.
DigitValue(c) ==
    IF \E v \in 0..15 : HexDigits[v + 1] = c THEN CHOOSE v \in 0..15 : HexDigits[v + 1] = c
    ELSE IF \E v \in 10..15 : LowerTable[HexDigits[v + 1]] = c
    THEN CHOOSE v \in 10..15 : LowerTable[HexDigits[v + 1]] = c
    ELSE 16

\* /^[0-9a-fA-F]+$/, /^[0-7]+$/ and /^[0-9]+$/ for radix 16, 8 and 10
IsNumeral(s, radix) == s # <<>> /\ \A i \in 1..Len(s) : DigitValue(s[i]) < radix

\* parseInt(s, radix) of a numeral
RECURSIVE ParseRadix(_, _)
ParseRadix(s, radix) ==
    IF s = <<>> THEN 0
    ELSE radix * ParseRadix(SubSeq(s, 1, Len(s) - 1), radix) + DigitValue(s[Len(s)])

\* One UTF-16 code unit as a character of the model: the character itself
\* where a string of the model can hold it, otherwise the name of the code
\* unit, U+ and four hexadecimal digits.
CharOfUnit(unit) ==
    IF unit >= 32 /\ unit <= 126 THEN Printable[unit - 31]
    ELSE IF unit = 9 THEN "\t"
    ELSE IF unit = 10 THEN "\n"
    ELSE IF unit = 12 THEN "\f"
    ELSE IF unit = 13 THEN "\r"
    ELSE "U+" \o HexDigits[(unit \div 4096) + 1] \o HexDigits[((unit \div 256) % 16) + 1]
              \o HexDigits[((unit \div 16) % 16) + 1] \o HexDigits[(unit % 16) + 1]

\* String.fromCodePoint(code) for a code point up to U+10FFFF: one code
\* unit, or the two of a surrogate pair.
fromCodePoint(code) ==
    IF code < 65536 THEN <<CharOfUnit(code)>>
    ELSE <<CharOfUnit(55296 + ((code - 65536) \div 1024)),
           CharOfUnit(56320 + ((code - 65536) % 1024))>>

\* escapeCodes of the YAML library: the character each one-character escape
\* of a double-quoted scalar stands for.
escapeCodes ==
    ("0" :> CharOfUnit(0)) @@ ("a" :> CharOfUnit(7)) @@ ("b" :> CharOfUnit(8))
    @@ ("e" :> CharOfUnit(27)) @@ ("f" :> "\f") @@ ("n" :> "\n") @@ ("r" :> "\r")
    @@ ("t" :> "\t") @@ ("v" :> CharOfUnit(11)) @@ ("N" :> CharOfUnit(133))
    @@ ("_" :> CharOfUnit(160)) @@ ("L" :> CharOfUnit(8232)) @@ ("P" :> CharOfUnit(8233))
    @@ (" " :> " ") @@ ("\"" :> "\"") @@ ("/" :> "/") @@ ("\\" :> "\\") @@ ("\t" :> "\t")

\* String.prototype.substr(from, length), from counted from 1
Substr(s, from, length) ==
    SubSeq(s, from, IF from + length - 1 < Len(s) THEN from + length - 1 ELSE Len(s))

\* What the resolution of a scalar gives: a text, or the RangeError of
\* String.fromCodePoint.
Resolved(text) == [thrown |-> FALSE, text |-> text]
Thrown == [thrown |-> TRUE, text |-> <<>>]
Then(chars, rest) == IF rest.thrown THEN Thrown ELSE Resolved(chars \o rest.text)

\* String.fromCodePoint throws a RangeError in parseCharCode of the YAML
\* library: the numeral is above U+10FFFF (1114111), the largest code point,
\* which only one of eight digits can be.
AboveMaxCodePoint(cc) ==
    Len(cc) = 8 /\ (ParseRadix(SubSeq(cc, 1, 4), 16) > 16 \/ ParseRadix(cc, 16) > 1114111)

\* doubleQuotedValue of the YAML library on a scalar of one line, from the
\* character at at (counted from 1) to the one before the closing quote: a
\* one-character escape gives its character, \x, \u and \U followed by 2, 4
\* and 8 hexadecimal digits give the character of that code, any other escape
\* is reported (BAD_DQ_ESCAPE) and stays as it is written.
RECURSIVE doubleQuotedValue(_, _)
doubleQuotedValue(source, at) ==
    IF at > Len(source) - 1 THEN Resolved(<<>>)
    ELSE IF source[at] # "\\" THEN Then(<<source[at]>>, doubleQuotedValue(source, at + 1))
    ELSE LET next == source[at + 1]
         IN  IF next \in DOMAIN escapeCodes
             THEN Then(<<escapeCodes[next]>>, doubleQuotedValue(source, at + 2))
             ELSE IF next \in {"x", "u", "U"}
             THEN LET length == IF next = "x" THEN 2 ELSE IF next = "u" THEN 4 ELSE 8
                      cc == Substr(source, at + 2, length)
                  IN  IF ~(Len(cc) = length /\ IsNumeral(cc, 16))
                      THEN Then(Substr(source, at, length + 2),
                                doubleQuotedValue(source, at + 2 + length))
                      ELSE IF AboveMaxCodePoint(cc) THEN Thrown
                      ELSE Then(fromCodePoint(ParseRadix(cc, 16)),
                                doubleQuotedValue(source, at + 2 + length))
             ELSE Then(<<"\\", next>>, doubleQuotedValue(source, at + 2))

\* singleQuotedValue of the YAML library on a scalar of one line:
\* the text between the quotes, each doubled quote replaced by one
RECURSIVE UnescapeSingle(_)
UnescapeSingle(s) ==
    IF s = <<>> THEN <<>>
    ELSE IF Len(s) >= 2 /\ s[1] = "'" /\ s[2] = "'" THEN <<"'">> \o UnescapeSingle(SubSeq(s, 3, Len(s)))
    ELSE <<s[1]>> \o UnescapeSingle(Tail(s))

singleQuotedValue(source) == UnescapeSingle(SubSeq(source, 2, Len(source) - 1))

\* Scalar.value is a string, a boolean, a number or null; the three that are
\* no strings are held with the text String() gives them, which is what
\* includes(), a template string and a Map key make of them.
StringValue(text) == [type |-> "string", text |-> text]
BooleanValue(text) == [type |-> "boolean", text |-> text]
NumberValue(text) == [type |-> "number", text |-> text]
NullValue == [type |-> "null", text |-> <<"n", "u", "l", "l">>]

Zeros(n) == [i \in 1..n |-> "0"]

(***************************************************************************)
(* Numbers of JavaScript: decimal numerals as doubles, and String() of a   *)
(* double                                                                  *)
(***************************************************************************)

\* A natural number of any size is the sequence of its decimal digits, the
\* most significant first, the empty sequence for 0.
BigStrip(a) ==
    IF \A i \in 1..Len(a) : a[i] = 0 THEN <<>>
    ELSE SubSeq(a, CHOOSE i \in 1..Len(a) : a[i] # 0 /\ \A j \in 1..(i - 1) : a[j] = 0, Len(a))

\* The digits of a without the zeros at its end.
DropTrailingZeros(a) ==
    IF \A i \in 1..Len(a) : a[i] = 0 THEN <<>>
    ELSE SubSeq(a, 1, CHOOSE i \in 1..Len(a) : a[i] # 0 /\ \A j \in (i + 1)..Len(a) : a[j] = 0)

\* Digit i of a written with n digits, zeros first; and with zeros after it.
PaddedLeft(a, n, i) == IF i > n - Len(a) THEN a[i - (n - Len(a))] ELSE 0
PaddedRight(a, i) == IF i <= Len(a) THEN a[i] ELSE 0

Larger(i, j) == IF i > j THEN i ELSE j
Smaller(i, j) == IF i < j THEN i ELSE j

\* a < b
BigLess(a, b) ==
    \/ Len(a) < Len(b)
    \/ /\ Len(a) = Len(b)
       /\ \E i \in 1..Len(a) : a[i] < b[i] /\ \A j \in 1..(i - 1) : a[j] = b[j]

\* The number whose digits are the sums of sum, each reduced to one digit: a
\* digit takes a carry when the first sum after it that is not 9 is 10 or
\* more.
Carried(sum) ==
    BigStrip([i \in 1..Len(sum) |->
                 (sum[i] + (IF \E j \in (i + 1)..Len(sum) :
                                   sum[j] >= 10 /\ \A l \in (i + 1)..(j - 1) : sum[l] = 9
                            THEN 1 ELSE 0)) % 10])

\* a + b
BigAdd(a, b) ==
    Carried([i \in 1..(1 + Larger(Len(a), Len(b))) |->
                PaddedLeft(a, 1 + Larger(Len(a), Len(b)), i) + PaddedLeft(b, 1 + Larger(Len(a), Len(b)), i)])

\* a - 1 for a > 0
BigDecrement(a) ==
    BigStrip([i \in 1..Len(a) |->
                 IF \E j \in (i + 1)..Len(a) : a[j] # 0 THEN a[i]
                 ELSE IF a[i] # 0 THEN a[i] - 1
                 ELSE 9])

\* The sum of a sequence of numbers.
RECURSIVE BigSum(_)
BigSum(s) ==
    IF s = <<>> THEN <<>>
    ELSE IF Len(s) = 1 THEN s[1]
    ELSE BigAdd(BigSum(SubSeq(s, 1, Len(s) \div 2)), BigSum(SubSeq(s, (Len(s) \div 2) + 1, Len(s))))

\* The sum of the products a[i] * b[k - i] for i from lo to hi.
RECURSIVE ConvSum(_, _, _, _, _)
ConvSum(a, b, k, lo, hi) ==
    IF lo > hi THEN 0
    ELSE IF lo = hi THEN a[lo] * b[k - lo]
    ELSE ConvSum(a, b, k, lo, (lo + hi) \div 2) + ConvSum(a, b, k, ((lo + hi) \div 2) + 1, hi)

\* The sums of the digit products of a and b, one per weight.
DigitProducts(a, b) ==
    [p \in 1..(Len(a) + Len(b) - 1) |->
        ConvSum(a, b, p + 1, Larger(1, p + 1 - Len(b)), Smaller(Len(a), p))]

\* The number made of digit t (0 for the last) of each of the sums c.
DigitsAt(c, t) ==
    BigStrip([p \in 1..(Len(c) + t) |-> IF p <= Len(c) THEN (c[p] \div (10 ^ t)) % 10 ELSE 0])

\* The number with the sums c, each below 10^8, at the places of its digits.
Spread(c) == BigSum([t \in 1..8 |-> DigitsAt(c, t - 1)])

\* a * b
BigMul(a, b) == IF a = <<>> \/ b = <<>> THEN <<>> ELSE Spread(DigitProducts(a, b))

SquareTimes(a, b) == BigMul(BigMul(a, a), b)

\* base ^ k
RECURSIVE BigPow(_, _)
BigPow(base, k) ==
    IF k = 0 THEN <<1>>
    ELSE SquareTimes(BigPow(base, k \div 2), IF k % 2 = 1 THEN base ELSE <<1>>)

\* The value of a numeral in a radix of 16 or less.
RECURSIVE BigFromRadix(_, _)
BigFromRadix(s, radix) ==
    IF s = <<>> THEN <<>>
    ELSE IF Len(s) = 1 THEN BigStrip(<<DigitValue(s[1]) \div 10, DigitValue(s[1]) % 10>>)
    ELSE BigAdd(BigMul(BigFromRadix(SubSeq(s, 1, Len(s) \div 2), radix),
                       BigPow(BigStrip(<<radix \div 10, radix % 10>>), Len(s) - (Len(s) \div 2))),
                BigFromRadix(SubSeq(s, (Len(s) \div 2) + 1, Len(s)), radix))

\* The number digits * 10^exp times 2^k, k of either sign, as digits and exp.
Scale2(digits, exp, k) ==
    [digits |-> BigMul(digits, BigPow(IF k >= 0 THEN <<2>> ELSE <<5>>, IF k >= 0 THEN k ELSE -k)),
     exp |-> IF k >= 0 THEN exp ELSE exp + k]

\* The integer part of digits * 10^exp, and the digits after its point.
IntegerPart(t) ==
    IF t.digits = <<>> THEN <<>>
    ELSE IF t.exp >= 0 THEN t.digits \o [i \in 1..t.exp |-> 0]
    ELSE SubSeq(t.digits, 1, Len(t.digits) + t.exp)
FractionPart(t) ==
    IF t.exp >= 0 THEN <<>> ELSE [i \in 1..(-t.exp) |-> PaddedLeft(t.digits, -t.exp, i)]

IsOdd(a) == a # <<>> /\ a[Len(a)] % 2 = 1

\* 2^52 and 2^53: the significand of a normal double lies between them.
TwoTo52 == <<4, 5, 0, 3, 5, 9, 9, 6, 2, 7, 3, 7, 0, 4, 9, 6>>
TwoTo53 == <<9, 0, 0, 7, 1, 9, 9, 2, 5, 4, 7, 4, 0, 9, 9, 2>>

\* A double: m * 2^q with 2^52 <= m < 2^53 and q <= 971, or with m < 2^52 and
\* q = -1074 for a subnormal.
ZeroDouble == [kind |-> "zero", m |-> <<>>, q |-> 0]
InfinityDouble == [kind |-> "Infinity", m |-> <<>>, q |-> 0]
Double(m, q) ==
    IF m = <<>> THEN ZeroDouble
    ELSE IF q + (IF m = TwoTo53 THEN 1 ELSE 0) > 971 THEN InfinityDouble
    ELSE IF m = TwoTo53 THEN [kind |-> "finite", m |-> TwoTo52, q |-> q + 1]
    ELSE [kind |-> "finite", m |-> m, q |-> q]

\* whole and the fraction after it, rounded to the nearest integer, to the
\* even one of two that are equally near.
RoundToEven(whole, fraction) ==
    IF /\ fraction # <<>>
       /\ \/ fraction[1] > 5
          \/ /\ fraction[1] = 5
             /\ IsOdd(whole) \/ \E i \in 2..Len(fraction) : fraction[i] # 0
    THEN BigAdd(whole, <<1>>)
    ELSE whole

\* The binary exponents q a number between 10^(n-1) and 10^n can have as a
\* double: its highest bit lies between n - 1 and n times log2(10) = 3.32192...
BinaryExponents(n) ==
    {Larger(b - 52, -1074) :
        b \in ((((n - 1) * 3321928) \div 1000000) - 1)..(((n * 3321929) \div 1000000) + 1)}

\* whole is a significand for the exponent q.
IsSignificand(whole, q) ==
    BigLess(whole, TwoTo53) /\ (q = -1074 \/ ~BigLess(whole, TwoTo52))

\* The double of the number t * 2^q, t with a significand as integer part.
Rounded(t, q) == Double(RoundToEven(IntegerPart(t), FractionPart(t)), q)

DoubleAt(digits, exp, q) == Rounded(Scale2(digits, exp, -q), q)

\* The double next to the number digits * 10^exp > 0 (round to nearest, ties
\* to even); zero below the subnormals, Infinity above the largest double.
ToDouble(digits, exp) ==
    IF Len(digits) + exp > 310 THEN InfinityDouble
    ELSE IF Len(digits) + exp < -323 THEN ZeroDouble
    ELSE DoubleAt(digits, exp,
                  CHOOSE q \in BinaryExponents(Len(digits) + exp) :
                      IsSignificand(IntegerPart(Scale2(digits, exp, -q)), q))

\* A positive decimal number: 0.d * 10^n, d without zeros at either end.
Decimal(t) ==
    [d |-> DropTrailingZeros(BigStrip(t.digits)), n |-> Len(BigStrip(t.digits)) + t.exp]

DecimalLess(a, b) ==
    \/ a.n < b.n
    \/ /\ a.n = b.n
       /\ \E i \in 1..Larger(Len(a.d), Len(b.d)) :
              /\ PaddedRight(a.d, i) < PaddedRight(b.d, i)
              /\ \A j \in 1..(i - 1) : PaddedRight(a.d, j) = PaddedRight(b.d, j)

\* value cut after k digits, and the next number of k digits above it.
Down(value, k) == [d |-> DropTrailingZeros(SubSeq(value.d, 1, Smaller(k, Len(value.d)))), n |-> value.n]
NextAbove(next, k, n) ==
    IF Len(next) > k THEN [d |-> <<1>>, n |-> n + 1] ELSE [d |-> DropTrailingZeros(next), n |-> n]
Up(value, k) ==
    IF Len(value.d) <= k THEN value
    ELSE NextAbove(BigAdd(SubSeq(value.d, 1, k), <<1>>), k, value.n)

\* A decimal number reads as the double value when it lies between low and
\* high, the middles between the double and its neighbours; the middles
\* themselves do when the significand is even (closed).
DownFits(value, low, closed, k) ==
    IF closed THEN ~DecimalLess(Down(value, k), low) ELSE DecimalLess(low, Down(value, k))
UpFits(value, high, closed, k) ==
    IF closed THEN ~DecimalLess(high, Up(value, k)) ELSE DecimalLess(Up(value, k), high)
AnyFits(value, low, high, closed, k) ==
    DownFits(value, low, closed, k) \/ UpFits(value, high, closed, k)

\* The digits of value after the first k make more than half a unit of digit
\* k, or half a unit and digit k is odd.
UpNearer(rest, last) ==
    /\ rest # <<>>
    /\ \/ rest[1] > 5
       \/ rest[1] = 5 /\ (Len(rest) > 1 \/ last % 2 = 1)

Nearest(value, low, high, closed, k) ==
    IF ~UpFits(value, high, closed, k) THEN Down(value, k)
    ELSE IF ~DownFits(value, low, closed, k) THEN Up(value, k)
    ELSE IF UpNearer(SubSeq(value.d, k + 1, Len(value.d)), value.d[k]) THEN Up(value, k)
    ELSE Down(value, k)

\* The shortest decimal number that reads as the double value, and of the
\* numbers of that length the one nearest to it.
Shortest(value, low, high, closed) ==
    Nearest(value, low, high, closed,
            CHOOSE k \in 1..17 : /\ AnyFits(value, low, high, closed, k)
                                 /\ \A j \in 1..(k - 1) : ~AnyFits(value, low, high, closed, j))

\* The digits String() writes for the double m * 2^q (Number::toString of
\* ECMAScript, steps 5 and following). The double is 2m halves of 2^q; the
\* middle to the double above is 2m + 1 of them, the middle to the double
\* below 2m - 1, or 4m - 1 quarters where the double below has the smaller
\* exponent.
ShortestDecimal(m, q) ==
    Shortest(Decimal(Scale2(BigMul(m, <<2>>), 0, q - 1)),
             Decimal(Scale2(BigDecrement(BigMul(m, IF m = TwoTo52 /\ q > -1074 THEN <<4>> ELSE <<2>>)),
                            0, IF m = TwoTo52 /\ q > -1074 THEN q - 2 ELSE q - 1)),
             Decimal(Scale2(BigAdd(BigMul(m, <<2>>), <<1>>), 0, q - 1)),
             ~IsOdd(m))

\* The digits 0 to 9 of a numeral as numbers, and back.
DigitsOf(s) == [i \in 1..Len(s) |-> DigitValue(s[i])]
NumeralOf(a) == [i \in 1..Len(a) |-> Digits[a[i] + 1]]

\* Number::toString of ECMAScript for the digits s and the position n of the
\* decimal point: decimal notation for n up to 21 and down to -5, exponential
\* notation beyond.
Notation(sign, s, n) ==
    IF Len(s) <= n /\ n <= 21 THEN sign \o s \o Zeros(n - Len(s))
    ELSE IF 0 < n /\ n <= 21 THEN sign \o SubSeq(s, 1, n) \o <<".">> \o SubSeq(s, n + 1, Len(s))
    ELSE IF -6 < n /\ n <= 0 THEN sign \o <<"0", ".">> \o Zeros(-n) \o s
    ELSE sign \o <<s[1]>> \o (IF Len(s) = 1 THEN <<>> ELSE <<".">> \o Tail(s))
              \o (IF n - 1 >= 0 THEN <<"e", "+">> \o NumberToString(n - 1)
                  ELSE <<"e", "-">> \o NumberToString(1 - n))

Written(sign, decimal) == Notation(sign, NumeralOf(decimal.d), decimal.n)

\* String(x) of a double x, negated when sign says so; zero of either sign
\* is 0.
DoubleText(sign, double) ==
    IF double.kind = "zero" THEN <<"0">>
    ELSE IF double.kind = "Infinity" THEN sign \o <<"I", "n", "f", "i", "n", "i", "t", "y">>
    ELSE Written(sign, ShortestDecimal(double.m, double.q))

\* A number of at most 15 significant digits between 10^-307 and 10^308 is a
\* normal double of which it is the shortest decimal itself (no two numbers
\* of 15 digits share a double): its digits are written as they are.
WholeText(sign, whole, exponent10) ==
    IF whole = <<>> THEN <<"0">>
    ELSE IF Len(DropTrailingZeros(whole)) <= 15 /\ Len(whole) + exponent10 \in -306..308
    THEN Written(sign, Decimal([digits |-> whole, exp |-> exponent10]))
    ELSE DoubleText(sign, ToDouble(whole, exponent10))

\* String(x) for the double x next to digits * 10^exponent10, negated when
\* negative.
NumberText(negative, digits, exponent10) ==
    WholeText(IF negative THEN <<"-">> ELSE <<>>, BigStrip(DigitsOf(digits)), exponent10)

\* The parts of a decimal numeral: sign, digits before and after the point,
\* exponent.
HasSign(t) == t # <<>> /\ t[1] \in {"-", "+"}
Unsigned(t) == IF HasSign(t) THEN Tail(t) ELSE t
FirstOf(s, chars) ==
    IF \E i \in 1..Len(s) : s[i] \in chars
    THEN CHOOSE i \in 1..Len(s) : s[i] \in chars /\ \A j \in 1..(i - 1) : s[j] \notin chars
    ELSE 0
Mantissa(t) ==
    LET u == Unsigned(t)
        e == FirstOf(u, {"e", "E"})
    IN  IF e = 0 THEN u ELSE SubSeq(u, 1, e - 1)
ExponentPart(t) ==
    LET u == Unsigned(t)
        e == FirstOf(u, {"e", "E"})
    IN  IF e = 0 THEN <<>> ELSE SubSeq(u, e + 1, Len(u))
IntegerDigits(t) ==
    LET m == Mantissa(t)
        dot == FirstOf(m, {"."})
    IN  IF dot = 0 THEN m ELSE SubSeq(m, 1, dot - 1)
FractionDigits(t) ==
    LET m == Mantissa(t)
        dot == FirstOf(m, {"."})
    IN  IF dot = 0 THEN <<>> ELSE SubSeq(m, dot + 1, Len(m))

\* The tests of the tags of the core schema, in the order in which the
\* library tries them on a plain scalar.
\* null: /^(?:~|[Nn]ull|NULL)?$/
IsNull(t) == t \in {<<>>, <<"~">>, <<"n", "u", "l", "l">>, <<"N", "u", "l", "l">>, <<"N", "U", "L", "L">>}
\* bool: /^(?:[Tt]rue|TRUE|[Ff]alse|FALSE)$/
IsTrue(t) == t \in {<<"t", "r", "u", "e">>, <<"T", "r", "u", "e">>, <<"T", "R", "U", "E">>}
IsFalse(t) == t \in {<<"f", "a", "l", "s", "e">>, <<"F", "a", "l", "s", "e">>, <<"F", "A", "L", "S", "E">>}
\* int: /^0o[0-7]+$/, /^[-+]?[0-9]+$/, /^0x[0-9a-fA-F]+$/
IsOctal(t) == Len(t) >= 3 /\ t[1] = "0" /\ t[2] = "o" /\ IsNumeral(SubSeq(t, 3, Len(t)), 8)
IsInt(t) == IsNumeral(Unsigned(t), 10)
IsHex(t) == Len(t) >= 3 /\ t[1] = "0" /\ t[2] = "x" /\ IsNumeral(SubSeq(t, 3, Len(t)), 16)
\* float: /^(?:[-+]?\.(?:inf|Inf|INF)|\.nan|\.NaN|\.NAN)$/
IsNaN(t) == t \in {<<".", "n", "a", "n">>, <<".", "N", "a", "N">>, <<".", "N", "A", "N">>}
IsInf(t) == Unsigned(t) \in {<<".", "i", "n", "f">>, <<".", "I", "n", "f">>, <<".", "I", "N", "F">>}
\* float: /^[-+]?(?:\.[0-9]+|[0-9]+(?:\.[0-9]*)?)[eE][-+]?[0-9]+$/ with an
\* exponent, /^[-+]?(?:\.[0-9]+|[0-9]+\.[0-9]*)$/ without
IsFloat(t) ==
    LET m == Mantissa(t)
        i == IntegerDigits(t)
        f == FractionDigits(t)
        hasDot == FirstOf(m, {"."}) # 0
        hasExp == FirstOf(Unsigned(t), {"e", "E"}) # 0
    IN  /\ IF i = <<>> THEN hasDot /\ IsNumeral(f, 10)
           ELSE IsNumeral(i, 10) /\ (f = <<>> \/ IsNumeral(f, 10))
        /\ hasDot \/ hasExp
        /\ hasExp => IsNumeral(Unsigned(ExponentPart(t)), 10)

\* The exponent of a numeral. One of more than six digits counts as 10^6:
\* behind a mantissa of fewer than 10^6 digits it makes the same number, 0 or
\* Infinity.
ExponentValue(e) ==
    LET significant == NumeralOf(BigStrip(DigitsOf(Unsigned(e))))
        size == IF Len(significant) > 6 THEN 1000000 ELSE ParseRadix(significant, 10)
    IN  IF e = <<>> THEN 0
        ELSE IF e[1] = "-" THEN -size
        ELSE size

\* parseFloat of a numeral that passed IsInt or IsFloat, as String() shows it
FloatText(t) ==
    NumberText(t[1] = "-", IntegerDigits(t) \o FractionDigits(t),
               ExponentValue(ExponentPart(t)) - Len(FractionDigits(t)))

\* parseInt(s, radix) of a numeral in radix 8 or 16, as String() shows it
RadixText(s, radix) == NumberText(FALSE, NumeralOf(BigFromRadix(s, radix)), 0)

\* The value of a plain scalar under the core schema (YAML 1.2, the default
\* of parseDocument): null, a boolean or a number when the scalar passes the
\* test of such a tag, a string with the scalar's text otherwise.
ResolvePlain(t) ==
    IF IsNull(t) THEN NullValue
    ELSE IF IsTrue(t) THEN BooleanValue(<<"t", "r", "u", "e">>)
    ELSE IF IsFalse(t) THEN BooleanValue(<<"f", "a", "l", "s", "e">>)
    ELSE IF IsOctal(t) THEN NumberValue(RadixText(SubSeq(t, 3, Len(t)), 8))
    ELSE IF IsInt(t) THEN NumberValue(FloatText(t))
    ELSE IF IsHex(t) THEN NumberValue(RadixText(SubSeq(t, 3, Len(t)), 16))
    ELSE IF IsNaN(t) THEN NumberValue(<<"N", "a", "N">>)
    ELSE IF IsInf(t) THEN NumberValue((IF t[1] = "-" THEN <<"-">> ELSE <<>>) \o <<"I", "n", "f", "i", "n", "i", "t", "y">>)
    ELSE IF IsFloat(t) THEN NumberValue(FloatText(t))
    ELSE StringValue(t)

\* The key token without the white space between it and the colon.
RECURSIVE TrimEnd(_)
TrimEnd(s) ==
    IF s # <<>> /\ s[Len(s)] \in {" ", "\t"} THEN TrimEnd(SubSeq(s, 1, Len(s) - 1)) ELSE s

\* Scalar.value of a key written as token on one line: "double-quoted" with
\* its escapes resolved, 'single-quoted' with '' for a quote, or plain and
\* resolved by the core schema. thrown says that composing the scalar throws.
ScalarValue(token) ==
    LET source == TrimEnd(token)
    IN  IF Len(source) >= 2 /\ source[1] = "\"" /\ source[Len(source)] = "\""
        THEN LET r == doubleQuotedValue(source, 2)
             IN  [thrown |-> r.thrown, value |-> StringValue(r.text)]
        ELSE IF Len(source) >= 2 /\ source[1] = "'" /\ source[Len(source)] = "'"
        THEN [thrown |-> FALSE, value |-> StringValue(singleQuotedValue(source))]
        ELSE [thrown |-> FALSE, value |-> ResolvePlain(source)]

\* !value of JavaScript: null, false, 0, NaN and the empty string.
Falsy(value) ==
    \/ value.type = "null"
    \/ value.type = "boolean" /\ value.text = <<"f", "a", "l", "s", "e">>
    \/ value.type = "number" /\ value.text \in {<<"0">>, <<"N", "a", "N">>}
    \/ value.type = "string" /\ value.text = <<>>

\* const name = pair.key?.value, as the key of a pair of the model: the text
\* of the value, and the empty name, which the loop of parseFile skips as it
\* skips every name with !name, for a value that is falsy.
KeyName(value) == IF Falsy(value) THEN <<>> ELSE value.text

\* A line that opens a service definition: two spaces, a key, a colon.
IsDefinitionLine(line) ==
    /\ Len(line) >= 4
    /\ line[1] = " " /\ line[2] = " "
    /\ line[3] \notin {" ", "#"}
    /\ line[Len(line)] = ":"

\* The key of a definition line: what stands between the indentation and the
\* colon.
KeyToken(line) == SubSeq(line, 3, Len(line) - 1)

\* A line of the body of a definition: "    class: <name>".
CLASS_LINE_HEAD == <<" ", " ", " ", " ", "c", "l", "a", "s", "s", ":", " ">>
IsClassLine(line) == StartsWith(line, CLASS_LINE_HEAD)

\* The value of the definition opened at line i: the mapping of the class line
\* that follows it, null when none follows.
DefinitionValue(lines, i) ==
    IF i < Len(lines) /\ IsClassLine(lines[i + 1])
    THEN MapVal(<<>>, SubSeq(lines[i + 1], Len(CLASS_LINE_HEAD) + 1, Len(lines[i + 1])))
    ELSE NullVal

\* YAML.parseDocument(content, { lineCounter }) on the texts of the model:
\* the pair of the services key and, under it, one pair per definition line,
\* each with the value of its key and the line linePos gives for the offset
\* at which its key starts (pair.key.range[0]); it throws when composing a
\* key throws.
ReadServicesYaml(lines) ==
    LET content == ContentOf(lines)
        lineStarts == LineStarts(content)
        top == SelectSeq([i \in 1..Len(lines) |-> i], LAMBDA i : lines[i] = <<"s", "e", "r", "v", "i", "c", "e", "s", ":">>)
        defs == SelectSeq([i \in 1..Len(lines) |-> i],
                          LAMBDA i : top # <<>> /\ i > top[1] /\ IsDefinitionLine(lines[i]))
        keys == [j \in 1..Len(defs) |-> ScalarValue(KeyToken(lines[defs[j]]))]
        entries == [j \in 1..Len(defs) |->
                       YamlPair(KeyName(keys[j].value),
                                linePosLine(lineStarts, OffsetOfLine(lines, defs[j]) + 2),
                                DefinitionValue(lines, defs[j]))]
    IN  IF top = <<>> THEN YamlDoc(<<>>)
        ELSE IF \E j \in 1..Len(defs) : keys[j].thrown THEN Malformed
        ELSE YamlDoc(<<YamlPair(SERVICES_KEY,
                                linePosLine(lineStarts, OffsetOfLine(lines, top[1])),
                                MapVal(entries, NoString))>>)

\* parseInt(s, 10) of a string of digits
RECURSIVE ParseInt(_)
ParseInt(s) ==
    IF s = <<>> THEN 0
    ELSE 10 * ParseInt(SubSeq(s, 1, Len(s) - 1))
         + (CHOOSE d \in 0..9 : Digits[d + 1] = s[Len(s)])

\* YamlDefinitionProvider.resolveServiceDefinition: the 0-based line of the
\* location it returns
resolveServiceDefinitionLine(service) ==
    IF service.sourceLine # <<>> THEN ParseInt(service.sourceLine) - 1 ELSE 0

\* The texts of the model: lines before the services key, the key, and up to
\* MaxDefinitions definitions, each a key line and a class line, with or
\* without an empty line after it. The keys are plain words, quoted words,
\* double-quoted scalars with an escape, and plain scalars that the core
\* schema resolves: to a boolean, to a number, to null; one key names a code
\* point that does not exist, one a number too small for a double, which is 0.
HeadLines == {<<>>, <<<<"#", " ", "c">>>>, <<<<>>, <<"#", " ", "c">>>>}
KeyLines ==
    {<<" ", " ", "x", ":">>,
     <<" ", " ", "y", ":">>,
     <<" ", " ", "'", "x", "'", ":">>,
     <<" ", " ", "\"", "y", "\"", ":">>,
     <<" ", " ", "\"", "x", "\\", "t", "y", "\"", ":">>,
     <<" ", " ", "\"", "\\", "x", "7", "9", "\"", ":">>,
     <<" ", " ", "T", "r", "u", "e", ":">>,
     <<" ", " ", "0", "x", "1", "0", ":">>,
     <<" ", " ", "1", "e", "3", ":">>,
     <<" ", " ", "1", ".", "5", "0", ":">>,
     <<" ", " ", "1", "e", "-", "4", "0", "0", ":">>,
     <<" ", " ", "\"", "\\", "U", "F", "F", "F", "F", "F", "F", "F", "F", "\"", ":">>,
     <<" ", " ", "~", ":">>,
     <<" ", " ", "0", ":">>}
DefinitionBlocks ==
    {<<k, <<" ", " ", " ", " ", "c", "l", "a", "s", "s", ":", " ", "A">>>> : k \in KeyLines} \cup {<<k, <<" ", " ", " ", " ", "c", "l", "a", "s", "s", ":", " ", "A">>, <<>>>> : k \in KeyLines}

Texts ==
    {h \o <<<<"s", "e", "r", "v", "i", "c", "e", "s", ":">>>> \o Flatten(bs) :
        h \in HeadLines, bs \in UNION {[1..n -> DefinitionBlocks] : n \in 1..MaxDefinitions}}

\* parseFile of the services parser on a file of the custom code with the
\* lines of input.
InitText ==
    /\ IdleServer
    /\ phpcs = None
    /\ pc = "ready"
    /\ input \in Texts
    /\ output = <<>>

ParseText ==
    /\ pc = "ready"
    /\ pc' = "done"
    /\ LET r == ParseResult("service", ReadServicesYaml(input), F_CUSTOM_SVC, DrupalRoot)
       IN  /\ output' = r.entities
           /\ cache' = IF r.stored
                       THEN CacheSet(cache, CacheKey("service", F_CUSTOM_SVC), r.entities, Infinity, now)
                       ELSE cache
    /\ UNCHANGED <<input, initialized, disk, docs, now, scannedFiles, handlers,
                   lastOp, expect, raced, budget, phpcs>>

NextText == ParseText

SpecText == InitText /\ [][NextText]_vars

(***************************************************************************)
(* C27: the line an entity points to                                       *)
(***************************************************************************)

\* C27 as stated: for every entity of a parse, the line of the file's text
\* at the entity's sourceLine contains the entity's name.
C27_LineContainsName ==
    pc = "done" =>
        \A i \in 1..Len(output) :
            LET line == resolveServiceDefinitionLine(output[i]) + 1
            IN  /\ line \in 1..Len(input)
                /\ Includes(input[line], output[i].name)

\* What the keys of the model's texts that name an entity mean in YAML 1.2:
\* the word itself for a plain or quoted word, the escaped character for an
\* escape, and for the plain True, 0x10, 1e3 and 1.50 the boolean true and
\* the numbers 16, 1000 and 1.5.
KeyMeaning ==
    (<<"x">> :> <<"x">>) @@ (<<"y">> :> <<"y">>) @@ (<<"'", "x", "'">> :> <<"x">>) @@ (<<"\"", "y", "\"">> :> <<"y">>) @@ (<<"\"", "x", "\\", "t", "y", "\"">> :> <<"x", "\t", "y">>) @@ (<<"\"", "\\", "x", "7", "9", "\"">> :> <<"y">>) @@ (<<"T", "r", "u", "e">> :> <<"t", "r", "u", "e">>) @@ (<<"0", "x", "1", "0">> :> <<"1", "6">>) @@ (<<"1", "e", "3">> :> <<"1", "0", "0", "0">>) @@ (<<"1", ".", "5", "0">> :> <<"1", ".", "5">>)

IsLetter(c) == \E i \in 0..25 : c \in {Chars[UpperA + i], Chars[LowerA + i]}

\* The key is written as its value reads: a plain word that starts with a
\* letter and is no spelling of true, false or null, or a quoted scalar with
\* neither a backslash nor a quote between its quotes.
WrittenVerbatim(token) ==
    IF token[1] \in {"'", "\""}
    THEN /\ Len(token) >= 2
         /\ token[Len(token)] = token[1]
         /\ \A i \in 2..(Len(token) - 1) : token[i] \notin {"\\", "'", "\""}
    ELSE /\ IsLetter(token[1])
         /\ \A i \in 1..Len(token) : token[i] \notin {" ", "\t", ":", "#"}
         /\ ToLowerCase(token) \notin {<<"t", "r", "u", "e">>, <<"f", "a", "l", "s", "e">>, <<"n", "u", "l", "l">>}

\* C27 amended: for every entity of a parse, the line at sourceLine is the
\* line on which the entity's key is written, the entities following each
\* other as their lines do; the entity's name is what the key means in YAML,
\* which need not be the text of the key; the line contains the name as text
\* whenever the key is written verbatim.
C27_LineHoldsKey ==
    pc = "done" =>
        \A i \in 1..Len(output) :
            LET line == resolveServiceDefinitionLine(output[i]) + 1
            IN  /\ line \in 1..Len(input)
                /\ IsDefinitionLine(input[line])
                /\ KeyToken(input[line]) \in DOMAIN KeyMeaning
                /\ output[i].name = KeyMeaning[KeyToken(input[line])]
                /\ i > 1 => line > resolveServiceDefinitionLine(output[i - 1]) + 1
                /\ WrittenVerbatim(KeyToken(input[line])) => Includes(input[line], output[i].name)

\* A file that starts with an empty line and a comment and defines 0x10 and,
\* after an empty line, "y": two entities, the first named 16 on line 4, which
\* does not contain 16, the second named y on line 7, which contains y.
C27_Witness ==
    /\ pc = "done"
    /\ Len(output) = 2
    /\ input[1] = <<>>
    /\ input[4] = <<" ", " ", "0", "x", "1", "0", ":">>
    /\ output[1].name = <<"1", "6">>
    /\ output[1].sourceLine = <<"4">>
    /\ ~Includes(input[4], output[1].name)
    /\ input[7] = <<" ", " ", "\"", "y", "\"", ":">>
    /\ output[2].name = NAME_Y
    /\ output[2].sourceLine = <<"7">>
    /\ Includes(input[7], output[2].name)

(***************************************************************************)
(* C31: duplicate names across files                                       *)
(***************************************************************************)

\* The position of file f in the insertion order of a scanned-file set
\* (0 when it is not in the set).
PositionIn(seq, f) ==
    IF SetHas(seq, f) THEN CHOOSE i \in 1..Len(seq) : seq[i] = f ELSE 0

\* File f currently defines the service name n: it is in scannedFiles and
\* the list the cache has for it holds an entity of that name.
Defines(c, scanned, t, f, n) ==
    /\ SetHas(scanned["service"], f)
    /\ CacheLive(c, KeyTable["service"][f], t)
    /\ \E i \in 1..Len(CacheGet(c, KeyTable["service"][f], t)) :
          CacheGet(c, KeyTable["service"][f], t)[i].name = n

\* In the index state (c, scanned), getService(n) is null when no file
\* defines n, and otherwise the first entity of that name in the list of the
\* defining file recorded earliest in scannedFiles.
FirstScannedWins(c, scanned, t) ==
    \A n \in Names :
        LET defining == {f \in Files : Defines(c, scanned, t, f, n)}
            got == getService(c, scanned, t, n)
        IN  IF defining = {} THEN got = <<>>
            ELSE LET first == CHOOSE f \in defining : \A g \in defining :
                                  PositionIn(scanned["service"], f) <= PositionIn(scanned["service"], g)
                     list == CacheGet(c, KeyTable["service"][first], t)
                     at == CHOOSE i \in 1..Len(list) :
                               list[i].name = n /\ \A j \in 1..(i - 1) : list[j].name # n
                 IN  got = <<list[at]>>

\* C31: in every state the index reaches, getService(name) returns the
\* entity of the file recorded earliest in scannedFiles among the files that
\* currently define the name; over every step, the files that stay in
\* scannedFiles keep their relative order (a re-parse of a scanned file keeps
\* its position), and a file that enters scannedFiles, for the first time or
\* again after its delete, stands after every file that stayed.
C31_FirstScannedWins ==
    [][/\ FirstScannedWins(cache', scannedFiles', now')
       /\ \A k \in KindSet : \A f, g \in Files :
             LET old == scannedFiles[k]
                 new == scannedFiles'[k]
             IN  /\ (/\ SetHas(old, f) /\ SetHas(old, g) /\ SetHas(new, f) /\ SetHas(new, g)
                     /\ PositionIn(old, f) < PositionIn(old, g))
                        => PositionIn(new, f) < PositionIn(new, g)
                 /\ (/\ SetHas(old, f) /\ SetHas(new, f) /\ Len(old) = Len(new))
                        => PositionIn(new, f) = PositionIn(old, f)
                 /\ (~SetHas(old, f) /\ SetHas(new, f) /\ SetHas(old, g) /\ SetHas(new, g))
                        => PositionIn(new, g) < PositionIn(new, f)]_vars

\* The custom services file, first of the scan, was deleted and indexed
\* again: it is now the last of three files that define x, and getService(x)
\* answers with the entity of the contrib file.
C31_Witness ==
    /\ scannedFiles["service"] = <<F_CONTRIB_SVC, F_PLAIN_SVC, F_CUSTOM_SVC>>
    /\ \A f \in {F_CONTRIB_SVC, F_PLAIN_SVC, F_CUSTOM_SVC} :
          Defines(cache, scannedFiles, now, f, NAME_X)
    /\ lastOp["service"][F_CUSTOM_SVC].op \in {"change", "content"}
    /\ getService(cache, scannedFiles, now, NAME_X) # <<>>
    /\ getService(cache, scannedFiles, now, NAME_X)[1].sourceFile = F_CONTRIB_SVC

(***************************************************************************)
(* C32: live events and the full scan on paths of custom code              *)
(***************************************************************************)

MaxSyncEvents == 2

\* The paths of custom code that receive events.
SyncFiles == {F_CUSTOM_SVC, F_CUSTOM_TEST_SVC, F_CUSTOM_LINKS, F_CUSTOM_LINKS_BAK}

\* The notifications of one event (created, changed, deleted) for them.
SyncBatches == {<<[file |-> f, type |-> t]>> : f \in SyncFiles, t \in 1..3}

\* The workspace of these runs: every path exists.
DiskSync ==
    [f \in AllFiles |-> IF EndsWith(f, SERVICES_SUFFIX) THEN DOC_SVC_X ELSE DOC_FLAT_X]

InitSync ==
    /\ initialized = FALSE
    /\ disk = DiskSync
    /\ docs = [f \in AllFiles |-> Closed]
    /\ cache = << >>
    /\ now = 0
    /\ scannedFiles = [k \in KindSet |-> <<>>]
    /\ handlers = <<>>
    /\ lastOp = [k \in KindSet |-> [f \in AllFiles |-> [op |-> "none", n |-> 0, had |-> FALSE, same |-> FALSE]]]
    /\ expect = [k \in KindSet |-> [f \in AllFiles |-> <<>>]]
    /\ raced = [k \in KindSet |-> [f \in AllFiles |-> FALSE]]
    /\ budget = MaxSyncEvents
    /\ phpcs = None
    /\ pc = None
    /\ input = None
    /\ output = None

NextSync ==
    \/ Initialize
    \/ \E i \in 1..MaxInFlight : ScanStep(i)
    \/ \E f \in SyncFiles : \E c \in Contents(f) : DidChangeContent(f, c)
    \/ \E evs \in SyncBatches : DidChangeWatchedFiles(evs)
    \/ \E i \in 1..MaxInFlight : Resume(i)
    \/ \E f \in SyncFiles : DiskUnlink(f)

SpecSync == InitSync /\ [][NextSync]_vars

\* The files that contribute entities to the index of parser k.
ContributingFiles(k) == {f \in AllFiles : VisibleIn(k, f, cache, scannedFiles) # <<>>}

\* The files a full scan of parser k would index now.
ScanWouldIndex(k) == {f \in AllFiles : disk[f] # Absent /\ GlobMatch(k, f, DrupalRoot)}

\* C32: once the events are processed, a file of custom code contributes
\* entities to an index only if it matches the scan's pattern for that kind
\* and lies outside the directories the scan ignores.
C32_LiveAgreesWithScan ==
    handlers = <<>> =>
        \A k \in KindSet : \A f \in ContributingFiles(k) :
            isCustomCode(f) => GlobMatch(k, f, DrupalRoot)

(***************************************************************************)
(* C33: the diagnostics the style-checker cache answers with               *)
(***************************************************************************)

\* A getDiagnostics for the document would be answered from the cache.
AnswersFromCache(uri) ==
    LET s == getDiagnosticsStart(phpcs.provider, uri, phpcs.version[uri])
    IN  /\ ~s.spawn
        /\ phpcs.provider.enabled
        /\ isPhpcsAvailable(phpcs.provider.resolver)

\* C33: when the last request, a getDiagnostics for a document at version v,
\* was answered from the cache, the cached diagnostics were computed from
\* the text the document had at version v.
C33_CachedDiagnosticsAreFresh ==
    \A uri \in PhpUris :
        (/\ phpcs.last.op = "getDiagnostics"
         /\ phpcs.last.uri = uri
         /\ ~phpcs.last.spawned
         /\ AnswersFromCache(uri))
        => phpcs.computed[uri] = phpcs.version[uri]

(***************************************************************************)
(* C34: scanAndIndex called on an index that live events have changed      *)
(***************************************************************************)

MaxRescanOps == 4

\* The files that change on disk and receive events in these runs.
RescanFiles == {F_CUSTOM_LINKS, F_CUSTOM_ROUTING}

RescanBatches == {<<[file |-> f, type |-> t]>> : f \in RescanFiles, t \in 2..3}

\* The output while a call of scanAndIndex is suspended.
Pending == -1

\* scanAndIndex of parser k is called and runs to its await of the glob or
\* to its return: input is the call (the parser, and the parser's
\* scannedFiles and the number of entities of its getAll at the call),
\* output the number the call returns.
Rescan(k) ==
    /\ initialized
    /\ Len(handlers) < MaxInFlight
    /\ \A i \in 1..Len(handlers) : handlers[i].src # "scan"
    /\ budget >= EventCost
    /\ budget' = budget - EventCost
    /\ LET r == CallScans(Ix, "scan", <<k>>)
       IN  /\ Commit(r, handlers)
           /\ output' = IF r.handler = <<>> THEN r.counts[1] ELSE Pending
    /\ input' = [kind |-> k, scanned |-> scannedFiles[k],
                 entities |-> Len(getAll(k, cache, scannedFiles, now))]
    /\ pc' = IF pc = "rescan" THEN "rescanned" ELSE "rescan"
    /\ UNCHANGED <<initialized, disk, docs, now, phpcs>>

InitRescan ==
    /\ initialized = FALSE
    /\ disk = DiskCustom
    /\ docs = [f \in Files |-> Closed]
    /\ cache = << >>
    /\ now = 0
    /\ scannedFiles = [k \in KindSet |-> <<>>]
    /\ handlers = <<>>
    /\ lastOp = [k \in KindSet |-> [f \in Files |-> [op |-> "none", n |-> 0, had |-> FALSE, same |-> FALSE]]]
    /\ expect = [k \in KindSet |-> [f \in Files |-> <<>>]]
    /\ raced = [k \in KindSet |-> [f \in Files |-> FALSE]]
    /\ budget = MaxRescanOps
    /\ phpcs = None
    /\ pc = None
    /\ input = None
    /\ output = None

NextRescan ==
    \/ Initialize
    \/ \E i \in 1..MaxInFlight : ScanStep(i)
    \/ \E evs \in RescanBatches : DidChangeWatchedFiles(evs)
    \/ \E i \in 1..MaxInFlight : Resume(i)
    \/ \E f \in RescanFiles : DiskWrite(f, DOC_FLAT_XY)
    \/ \E f \in RescanFiles : DiskUnlink(f)
    \/ \E k \in KindSet : Rescan(k)

SpecRescan == InitRescan /\ [][NextRescan]_vars

\* The full scan is due for parser k: no file is scanned, or getAll returns
\* no entity.
ScanDue(k) ==
    \/ Len(scannedFiles[k]) = 0
    \/ Len(getAll(k, cache, scannedFiles, now)) = 0

\* The suspended single call of scanAndIndex, of which there is at most one.
HasScanCall(hs) == \E i \in 1..Len(hs) : hs[i].src = "scan"
TheScanCall(hs) == hs[CHOOSE i \in 1..Len(hs) : hs[i].src = "scan"]

\* C34: over every call of scanAndIndex and every step of it: when a file is
\* scanned and getAll returns an entity at the call, it returns at once,
\* nothing is parsed and the index is left as it was; otherwise it awaits
\* the glob, and then every file the glob returned is parsed, with the list
\* it parses to in the cache, and recorded in scannedFiles, one after
\* the other to the end of the list; in both cases the number returned is the
\* number of entities getAll returns in the state it returns in.
C34_ScanOnlyWhenEmpty ==
    [][/\ pc' # pc =>
             LET k == input'.kind
             IN  /\ ~ScanDue(k) =>
                       /\ UNCHANGED <<cache, scannedFiles, lastOp, expect>>
                       /\ ~HasScanCall(handlers')
                       /\ output' = Len(getAll(k, cache', scannedFiles', now'))
                 /\ ScanDue(k) =>
                       /\ HasScanCall(handlers')
                       /\ TheScanCall(handlers').phase = "glob"
                       /\ UNCHANGED <<scannedFiles, lastOp, expect>>
                       /\ output' = Pending
       /\ (/\ HasScanCall(handlers)
           /\ TheScanCall(handlers).phase # "glob"
           /\ (HasScanCall(handlers') => TheScanCall(handlers') # TheScanCall(handlers))) =>
             LET h == TheScanCall(handlers)
                 k == h.kinds[1]
             IN  /\ h.at > 0 => SetHas(scannedFiles'[k], h.files[h.at])
                 /\ h.at < Len(h.files) =>
                       LET f == h.files[h.at + 1]
                           r == ParseTable[k][f][disk[f]]
                       IN  /\ HasScanCall(handlers')
                           /\ TheScanCall(handlers').at = h.at + 1
                           /\ lastOp'[k][f].op = "scan"
                           /\ r.stored =>
                                 /\ CacheLive(cache', KeyTable[k][f], now')
                                 /\ CacheGet(cache', KeyTable[k][f], now') = r.entities
                 /\ h.at = Len(h.files) =>
                       /\ ~HasScanCall(handlers')
                       /\ output' = Len(getAll(k, cache', scannedFiles', now'))]_vars

\* The links file was removed from disk and a change event for it left it
\* scanned without a list; it was written again, and a scanAndIndex of the
\* link parser, finding a scanned file but no entity, ran the scan and
\* returned 2.
C34_Witness ==
    /\ pc \in {"rescan", "rescanned"}
    /\ input.kind = "link"
    /\ input.scanned = <<F_CUSTOM_LINKS>>
    /\ input.entities = 0
    /\ ~HasScanCall(handlers)
    /\ lastOp["link"][F_CUSTOM_LINKS].op = "scan"
    /\ lastOp["link"][F_CUSTOM_LINKS].n = 1
    /\ disk[F_CUSTOM_LINKS] = DOC_FLAT_XY
    /\ output = 2

(***************************************************************************)
(* C35: what an edit invalidates                                           *)
(***************************************************************************)

MaxEdits == 3

\* The documents of custom code the client edits.
EditDocuments == {F_CUSTOM_SVC, F_CUSTOM_ROUTING, F_CUSTOM_LINKS, F_CUSTOM_PHP}

InitEdits ==
    /\ initialized = FALSE
    /\ disk = [f \in Files \cup {F_CUSTOM_PHP} |-> IF f \in Files THEN DiskAll[f] ELSE DOC_FLAT_X]
    /\ docs = [f \in Files \cup {F_CUSTOM_PHP} |-> Closed]
    /\ cache = << >>
    /\ now = 0
    /\ scannedFiles = [k \in KindSet |-> <<>>]
    /\ handlers = <<>>
    /\ lastOp = [k \in KindSet |-> [f \in Files |-> [op |-> "none", n |-> 0, had |-> FALSE, same |-> FALSE]]]
    /\ expect = [k \in KindSet |-> [f \in Files |-> <<>>]]
    /\ raced = [k \in KindSet |-> [f \in Files |-> FALSE]]
    /\ budget = MaxEdits
    /\ phpcs = None
    /\ pc = None
    /\ input = None
    /\ output = None

\* An edit changes the text of the document.
EditDocument(f, c) ==
    /\ docs[f] # c
    /\ DidChangeContent(f, c)

\* Files are rewritten on disk between the edits, so that a re-parse finds
\* other entities.
NextEdits ==
    \/ Initialize
    \/ \E i \in 1..MaxInFlight : ScanStep(i)
    \/ \E f \in EditDocuments : \E c \in Contents(f) : EditDocument(f, c)
    \/ \E i \in 1..MaxInFlight : Resume(i)
    \/ \E f \in EditDocuments \ {F_CUSTOM_PHP} : \E c \in Contents(f) : DiskWrite(f, c)

SpecEdits == InitEdits /\ [][NextEdits]_vars

\* The index entries (cache entries, and membership and order in
\* scannedFiles) of every file but f are the same before and after the step.
OnlyEntriesOf(f) ==
    /\ \A key \in (DOMAIN cache \cup DOMAIN cache') \ {CacheKey(k, f) : k \in KindSet} :
          /\ key \in DOMAIN cache
          /\ key \in DOMAIN cache'
          /\ cache'[key] = cache[key]
    /\ \A k \in KindSet : SetDelete(scannedFiles'[k], f) = SetDelete(scannedFiles[k], f)

\* The patterns onDidChangeContent clears.
EditPatterns == {CLASS_PATTERN, METHOD_PATTERN, SERVICE_PATTERN, ROUTE_PATTERN, LINK_PATTERN}

\* The suspended scans among the suspended calls.
ScanCalls(hs) == SelectSeq(hs, LAMBDA h : h.src \in ScanSources)

\* C35: a content-change event (the step that changes the text of a
\* document, and the steps in which its handler resumes) changes only index
\* entries keyed by the changed file; when the changed file is a PHP file
\* the cache and scannedFiles are unchanged; and none of the patterns
\* cleared on edits matches the key of an entry of the service, route or
\* link index.
C35_EditsTouchOnlyTheirFile ==
    [][/\ \A f \in EditDocuments :
             docs'[f] # docs[f] =>
                 /\ OnlyEntriesOf(f)
                 /\ EndsWith(f, PHP_SUFFIX) => UNCHANGED <<cache, scannedFiles>>
       /\ (docs' = docs /\ handlers' # handlers /\ ScanCalls(handlers') = ScanCalls(handlers)) =>
             \E i \in 1..Len(handlers) :
                 handlers[i].src \notin ScanSources /\ OnlyEntriesOf(handlers[i].events[1].file)
       /\ \A key \in DOMAIN cache : \A pattern \in EditPatterns :
             clearPattern(cache, pattern) = cache /\ ~matchesPattern(key, pattern)]_vars

\* The services document was edited after its file had been rewritten with
\* two services: the index has both, the other two services files and the
\* routing and links files still have their entries, and the PHP document
\* has been edited too.
C35_Witness ==
    /\ handlers = <<>>
    /\ docs[F_CUSTOM_PHP] # Closed
    /\ lastOp["service"][F_CUSTOM_SVC].op = "content"
    /\ Len(Visible("service", F_CUSTOM_SVC)) = 2
    /\ Visible("service", F_CONTRIB_SVC) # <<>>
    /\ Visible("service", F_PLAIN_SVC) # <<>>
    /\ Visible("route", F_CUSTOM_ROUTING) # <<>>
    /\ Visible("link", F_CUSTOM_LINKS) # <<>>

(***************************************************************************)
(* C36: the common entity routes in the route index                        *)
(***************************************************************************)

MaxRouteOps == 3

\* What the routing file of these runs holds: the route x, or a route whose
\* name is on the common entity route list.
RouteContents == {DOC_FLAT_X, DOC_FLAT_COMMON}

\* A workspace whose definition files are routing files.
DiskRoutes == [f \in Files |-> IF FileTest("route", f) THEN DiskAll[f] ELSE Absent]

RouteBatches == {<<[file |-> F_CUSTOM_ROUTING, type |-> t]>> : t \in 2..3}

InitRoutes ==
    /\ initialized = FALSE
    /\ \E c \in RouteContents : disk = [DiskRoutes EXCEPT ![F_CUSTOM_ROUTING] = c]
    /\ docs = [f \in Files |-> Closed]
    /\ cache = << >>
    /\ now = 0
    /\ scannedFiles = [k \in KindSet |-> <<>>]
    /\ handlers = <<>>
    /\ lastOp = [k \in KindSet |-> [f \in Files |-> [op |-> "none", n |-> 0, had |-> FALSE, same |-> FALSE]]]
    /\ expect = [k \in KindSet |-> [f \in Files |-> <<>>]]
    /\ raced = [k \in KindSet |-> [f \in Files |-> FALSE]]
    /\ budget = MaxRouteOps
    /\ phpcs = None
    /\ pc = None
    /\ input = None
    /\ output = None

NextRoutes ==
    \/ Initialize
    \/ \E i \in 1..MaxInFlight : ScanStep(i)
    \/ \E evs \in RouteBatches : DidChangeWatchedFiles(evs)
    \/ \E i \in 1..MaxInFlight : Resume(i)
    \/ \E c \in RouteContents : DiskWrite(F_CUSTOM_ROUTING, c)
    \/ DiskUnlink(F_CUSTOM_ROUTING)

SpecRoutes == InitRoutes /\ [][NextRoutes]_vars

\* The elements of a sequence, as a set
Range(s) == {s[i] : i \in 1..Len(s)}

\* The synthetic entries of a name in what getAllRoutes returns.
SyntheticEntries(routes, name) ==
    {i \in 1..Len(routes) : routes[i] = CommonRoute(name)}

\* C36: in every state of the route index the names of getAllRoutes() are
\* the names getAllRouteNames() returns; every name of the common entity
\* route list is among them, with at most one synthetic entry, and with none
\* when a routing file defines the name; and routeExists holds for it, so
\* that no 'not found' diagnostic is made for a reference to it.
C36_CommonRoutesResolvable ==
    LET routes == getAllRoutes(cache, scannedFiles, now)
        names == getAllRouteNames(cache, scannedFiles, now)
        cached == CachedEntities("route", cache, scannedFiles, now)
    IN  /\ Range(NamesOf(routes)) = Range(names)
        /\ Len(Dedup(names)) = Len(names)
        /\ \A i \in 1..Len(COMMON_ENTITY_ROUTES) :
              LET n == COMMON_ENTITY_ROUTES[i]
              IN  /\ n \in Range(names)
                  /\ Cardinality(SyntheticEntries(routes, n)) =
                        IF n \in Range(NamesOf(cached)) THEN 0 ELSE 1
                  /\ routeExists(cache, scannedFiles, now, n)

\* The only routing file was removed and its delete event processed: no
\* routing file is scanned, and entity.node.canonical is in the index as a
\* synthetic entry.
C36_Witness ==
    /\ initialized
    /\ handlers = <<>>
    /\ lastOp["route"][F_CUSTOM_ROUTING].op = "delete"
    /\ expect["route"][F_CUSTOM_ROUTING] = <<>>
    /\ scannedFiles["route"] = <<>>
    /\ disk[F_CUSTOM_ROUTING] = Absent
    /\ SyntheticEntries(getAllRoutes(cache, scannedFiles, now), COMMON_ENTITY_ROUTES[1]) # {}
    /\ routeExists(cache, scannedFiles, now, COMMON_ENTITY_ROUTES[1])

(***************************************************************************)
(* C37: expiry of entries with a finite TTL                                *)
(***************************************************************************)

\* The keys a cleanup at time t keeps: those whose entry is not older than
\* its own TTL.
KeptAt(c, t) ==
    {k \in DOMAIN c : ~c[k].ttl.finite \/ t - c[k].timestamp <= c[k].ttl.ms}

\* The map c restricted to the keys of a set.
Restricted(c, keys) == [k \in keys \cap DOMAIN c |-> c[k]]

\* C37: over every call: cleanup() leaves exactly the entries whose age is
\* not greater than their TTL, unchanged, and returns the number of the
\* others; get(key) returns the value and has(key) returns true exactly when
\* a cleanup at that instant would keep the entry of key; a get or has of an
\* entry that is kept leaves the map as it is, and one of an expired entry
\* removes that entry and nothing else.
C37_ExpiryIsExact ==
    [][input' # input \/ budget' # budget =>
         LET kept == KeptAt(cache, now)
             key == input'.key
         IN  /\ input'.op = "cleanup" =>
                   /\ cache' = Restricted(cache, kept)
                   /\ output'.count = Cardinality(DOMAIN cache \ kept)
             /\ input'.op = "get" =>
                   /\ output'.value # Undefined <=> key \in kept
                   /\ key \in kept => output'.value = cache[key].value
             /\ input'.op = "has" =>
                   output'.value = IF key \in kept THEN "true" ELSE "false"
             /\ input'.op \in {"get", "has"} =>
                   cache' = IF key \in kept THEN cache
                            ELSE Restricted(cache, DOMAIN cache \ {key})]_vars

\* A get has just returned the value of an entry whose age is exactly its
\* finite TTL, and the entry is still in the map.
C37_Witness ==
    /\ input.op = "get"
    /\ output.value # Undefined
    /\ input.key \in DOMAIN cache
    /\ cache[input.key].ttl.finite
    /\ now - cache[input.key].timestamp = cache[input.key].ttl.ms

(***************************************************************************)
(* C38: the range of a 'not found' diagnostic                              *)
(***************************************************************************)

\* The names the located lines refer to: beside x and y, names whose text
\* also occurs in a key (rent in parent, e in route_name), in a call name
\* (e in ::service, ->get, fromRoute and redirect) or at the start of
\* another name (y in ya).
NAME_E == <<"e">>
NAME_RENT == <<"r", "e", "n", "t">>
NAME_YA == <<"y", "a">>
PositionNames == {NAME_X, NAME_Y, NAME_E, NAME_RENT, NAME_YA}

\* The lines of a .services.yml, of a .links.*.yml and of a PHP document
\* that carry references.
PositionLines ==
    [services |->
        {LineSpec("svc_parent", <<n>>) : n \in PositionNames}
        \cup {LineSpec("svc_arguments", ns) : ns \in PositionNames \X PositionNames},
     links |->
        {LineSpec(form, <<n>>) :
            form \in {"route_name", "base_route", "link_parent"}, n \in PositionNames},
     php |->
        {LineSpec(form, <<n>>) :
            form \in {"service", "get", "fromRoute", "createFromRoute"}, n \in PositionNames}
        \cup {LineSpec("redirect", ns) : ns \in {NAME_Y, NAME_E} \X {NAME_Y, NAME_E}}]

\* A pass over one line: the kind of document, the line and, for the YAML
\* validators, the names the index has.
PositionInputs ==
    UNION {{[file |-> file, line |-> Render(spec), available |-> available] :
                spec \in PositionLines[file],
                available \in IF file = "php" THEN {<<>>} ELSE {<<>>, <<NAME_X>>}} :
           file \in {"services", "links", "php"}}

InitPositions ==
    /\ IdleServer
    /\ phpcs = None
    /\ pc = "ready"
    /\ input \in PositionInputs
    /\ output = <<>>

\* validateServices over the line of a .services.yml document.
LocateInServices ==
    /\ pc = "ready"
    /\ input.file = "services"
    /\ pc' = "located"
    /\ output' = validateServicesLines(<<input.line>>, input.available)
    /\ UNCHANGED input
    /\ ServerUnchanged

\* validateRoutes, then validateParentLinks, over the line of a
\* .links.*.yml document.
LocateInLinks ==
    /\ pc = "ready"
    /\ input.file = "links"
    /\ pc' = "located"
    /\ output' = validateRoutesLines(<<input.line>>, input.available)
                    \o validateParentLinksLines(<<input.line>>, input.available)
    /\ UNCHANGED input
    /\ ServerUnchanged

\* The loop body of PhpDiagnosticProvider.provideDiagnostics over the line
\* of a PHP document, nothing having been scanned.
LocateInPhp ==
    /\ pc = "ready"
    /\ input.file = "php"
    /\ pc' = "located"
    /\ output' = provideDiagnosticsLine(input.line, 1, cache, scannedFiles, now)
    /\ UNCHANGED input
    /\ ServerUnchanged

NextPositions ==
    \/ LocateInServices
    \/ LocateInLinks
    \/ LocateInPhp

SpecPositions == InitPositions /\ [][NextPositions]_vars

\* The span (0-based, end exclusive) of the identifier a match captured,
\* and of the whole '@name' a match of the sigil pattern covers.
IdentifierSpan(m) == <<m.from - 1, m.to - 1>>
SigilSpan(m) == <<m.index - 1, m.to - 1>>

\* The spans of the identifiers the matches ms of a line captured.
IdentifierSpans(ms) == [j \in 1..Len(ms) |-> IdentifierSpan(ms[j])]

\* The span of the identifier of a line matched as a whole, when its name
\* is not among the available ones.
KeyLineSpans(line, m, available) ==
    IF m.found /\ ~Has(available, Group1(line, m)) THEN <<IdentifierSpan(m)>> ELSE <<>>

\* The spans of the occurrences a pass over the line reports, in the order
\* in which the pass meets them.
ReportedSpans(in) ==
    CASE in.file = "services" ->
            KeyLineSpans(in.line, MatchKeyLine(in.line, <<PARENT_KEY>>), in.available)
            \o [j \in 1..Len(Unavailable(in.line, ExecAll(in.line, AT_SIGN_PATTERN), in.available)) |->
                    SigilSpan(Unavailable(in.line, ExecAll(in.line, AT_SIGN_PATTERN), in.available)[j])]
      [] in.file = "links" ->
            KeyLineSpans(in.line, MatchKeyLine(in.line, ROUTE_KEYS), in.available)
            \o KeyLineSpans(in.line, MatchKeyLine(in.line, <<PARENT_KEY>>), in.available)
      [] in.file = "php" ->
            IdentifierSpans(ExecAll(in.line, servicePattern))
            \o IdentifierSpans(ExecAll(in.line, getPattern))
            \o IdentifierSpans(ExecAll(in.line, urlPattern))
            \o IdentifierSpans(ExecAll(in.line, redirectPattern))
            \o IdentifierSpans(ExecAll(in.line, linkPattern))

\* C38: the diagnostics of a pass over a line are positioned on the
\* occurrences that caused them: the range of each starts at the first
\* character of its identifier occurrence (of its '@name' occurrence for an
\* argument reference) and ends right after its last character, also when
\* the same text occurs earlier on the line.
C38_DiagnosticOnItsOccurrence ==
    pc = "located" =>
        [j \in 1..Len(output) |-> <<output[j].start, output[j].end>>] = ReportedSpans(input)

(***************************************************************************)
(* C39: go-to-definition in a YAML document                                *)
(***************************************************************************)

\* [A-Za-z0-9_\\] and [A-Za-z0-9_]
MethodChars == CharRange("a", "z") \cup CharRange("A", "Z") \cup CharRange("0", "9") \cup {"_"}
ClassChars == MethodChars \cup {"\\"}

\* \\?([A-Za-z0-9_\\]+) at position p: the position at which the class name
\* starts. The optional backslash is taken when a class name follows it;
\* otherwise the backslash is the class name.
ClassNameFrom(line, p) ==
    IF OccursAt(line, <<"\\">>, p) /\ SkipWhile(line, p + 1, ClassChars) > p + 1
    THEN p + 1 ELSE p

\* (?:::([A-Za-z0-9_]+))? at position q: the position after the method name,
\* q when there is none
MethodTo(line, q) ==
    IF OccursAt(line, <<":", ":">>, q) /\ SkipWhile(line, q + 2, MethodChars) > q + 2
    THEN SkipWhile(line, q + 2, MethodChars) ELSE q

\* /:\s*['"]?\\?([A-Za-z0-9_\\]+)(?:::([A-Za-z0-9_]+))?['"]?/ at position i
MatchClassAt(line, i) ==
    LET p == SkipQuote(line, SkipWhile(line, i + 1, SpaceChars))
        from == ClassNameFrom(line, p)
        to == SkipWhile(line, from, ClassChars)
    IN  IF OccursAt(line, <<":">>, i) /\ to > from
        THEN Match(i, SkipQuote(line, MethodTo(line, to)), from, to)
        ELSE NoMatch

\* line.match(...) of extractClassFromYamlLine: the leftmost match
MatchClass(line) ==
    IF \E i \in 1..Len(line) : MatchClassAt(line, i).found
    THEN MatchClassAt(line, MinOf({i \in 1..Len(line) : MatchClassAt(line, i).found}))
    ELSE NoMatch

\* null, or a ClassInfo
NoClassInfo == [found |-> FALSE, className |-> <<>>, methodName |-> <<>>]
ClassInfo(className, methodName) ==
    [found |-> TRUE, className |-> className, methodName |-> methodName]

DRUPAL_NAMESPACE == <<"D", "r", "u", "p", "a", "l", "\\">>

\* BaseClassResolver.extractClassFromYamlLine (extractClassFromRoutingLine
\* is its alias): matchStart = line.indexOf(fullMatch), 0-based
extractClassFromYamlLine(line, character) ==
    LET m == MatchClass(line)
        matchStart == IndexOf(line, Group0(line, m)) - 1
        matchEnd == matchStart + Len(Group0(line, m))
    IN  IF ~m.found THEN NoClassInfo
        ELSE IF character < matchStart \/ character > matchEnd THEN NoClassInfo
        ELSE ClassInfo(IF StartsWith(Group1(line, m), DRUPAL_NAMESPACE) THEN Group1(line, m)
                       ELSE DRUPAL_NAMESPACE \o Group1(line, m),
                       SubSeq(line, m.to + 2, MethodTo(line, m.to) - 1))

\* null, or a Location whose range is the start of a line (0-based)
NoLocation == [found |-> FALSE, uri |-> <<>>, line |-> 0]
Location(uri, line) == [found |-> TRUE, uri |-> uri, line |-> line]

FILE_SCHEME == <<"f", "i", "l", "e", ":", "/", "/">>

\* BaseClassResolver.getSymbolLocation for a file that cannot be read: the
\* error is caught and the result is 1.
getSymbolLocationUnreadable == 1

\* YamlDefinitionProvider.resolveClassDefinition; existing is the set of
\* the paths for which fs.existsSync is true, none of which can be read.
resolveClassDefinition(classInfo, existing) ==
    LET classPath == resolveClassPath(classInfo.className, existing)
    IN  IF ~classPath.found THEN NoLocation
        ELSE Location(FILE_SCHEME \o classPath.path, getSymbolLocationUnreadable)

\* YamlDefinitionProvider.resolveServiceDefinition
resolveServiceDefinition(serviceName, c, scanned, t) ==
    LET service == getService(c, scanned, t, serviceName)
    IN  IF service = <<>> THEN NoLocation
        ELSE IF service[1].sourceFile = <<>> THEN NoLocation
        ELSE Location(FILE_SCHEME \o service[1].sourceFile,
                      resolveServiceDefinitionLine(service[1]))

\* YamlDefinitionProvider.provideDefinition for the line of the position
YamlDefinitionProvider_provideDefinition(line, character, c, scanned, t, existing) ==
    LET classInfo == extractClassFromYamlLine(line, character)
        serviceName == YamlServiceNameExtractor_extractServiceName(line, character)
    IN  IF classInfo.found THEN resolveClassDefinition(classInfo, existing)
        ELSE IF serviceName.found
        THEN resolveServiceDefinition(serviceName.name, c, scanned, t)
        ELSE NoLocation

\* The lines of the .services.yml document the requests are made in.
DefinitionLines ==
    {<<" ", " ", " ", " ", "p", "a", "r", "e", "n", "t", ":", " ", "x">>, <<" ", " ", " ", " ", "p", "a", "r", "e", "n", "t", ":", " ", "y">>, <<" ", " ", " ", " ", "a", "r", "g", "u", "m", "e", "n", "t", "s", ":", " ", "[", "'", "@", "x", "'", ",", " ", "'", "@", "y", "'", "]">>,
     <<" ", " ", " ", " ", " ", " ", "-", " ", "'", "@", "y", "'">>, <<" ", " ", "x", ":">>, <<" ", " ", " ", " ", "c", "l", "a", "s", "s", ":", " ", "D", "r", "u", "p", "a", "l", "\\", "a", "\\", "S">>}

\* The class files of the workspace: none.
ExistingClassFiles == {}

\* The workspace before onInitialize: the custom services file defines x,
\* x and y, or does not exist.
InitDefinition ==
    /\ initialized = FALSE
    /\ \E c \in {DOC_SVC_X, DOC_SVC_XY, Absent} : disk = [DiskAll EXCEPT ![F_CUSTOM_SVC] = c]
    /\ docs = [f \in Files |-> Closed]
    /\ cache = << >>
    /\ now = 0
    /\ scannedFiles = [k \in KindSet |-> <<>>]
    /\ handlers = <<>>
    /\ lastOp = [k \in KindSet |-> [f \in Files |-> [op |-> "none", n |-> 0, had |-> FALSE, same |-> FALSE]]]
    /\ expect = [k \in KindSet |-> [f \in Files |-> <<>>]]
    /\ raced = [k \in KindSet |-> [f \in Files |-> FALSE]]
    /\ budget = 0
    /\ phpcs = None
    /\ pc = None
    /\ input = None
    /\ output = None

\* connection.onDefinition for a position in a .services.yml document: the
\* lookup of the service goes through the cache when the line holds a
\* service name.
YamlDefinition(line, character) ==
    /\ ProvidersRegistered
    /\ input' = [line |-> line, character |-> character]
    /\ output' = YamlDefinitionProvider_provideDefinition(line, character, cache, scannedFiles,
                                                          now, ExistingClassFiles)
    /\ cache' = IF /\ ~extractClassFromYamlLine(line, character).found
                   /\ YamlServiceNameExtractor_extractServiceName(line, character).found
                THEN CacheAfterGetService(cache, scannedFiles["service"], now,
                        YamlServiceNameExtractor_extractServiceName(line, character).name)
                ELSE cache
    /\ pc' = "defined"
    /\ UNCHANGED <<initialized, disk, docs, now, scannedFiles, handlers, lastOp, expect, raced,
                   budget, phpcs>>

NextDefinition ==
    \/ Initialize
    \/ \E i \in 1..MaxInFlight : ScanStep(i)
    \/ \E line \in DefinitionLines : \E character \in 0..Len(line) : YamlDefinition(line, character)

SpecDefinition == InitDefinition /\ [][NextDefinition]_vars

\* The service name the cursor is on: the name of a parent line, or of the
\* '@name' reference the cursor is in; the empty sequence when the cursor is
\* on neither.
ParentUnderCursor(line, character) ==
    LET m == MatchKeyLine(line, <<PARENT_KEY>>)
    IN  IF m.found /\ character \in (m.from - 1)..(m.to - 1) THEN <<Group1(line, m)>> ELSE <<>>

ArgumentUnderCursor(line, character) ==
    LET ms == SelectSeq(ExecAll(line, AT_SIGN_PATTERN),
                        LAMBDA m : character \in (m.index - 1)..(m.to - 1))
    IN  IF ms = <<>> THEN <<>> ELSE <<Group1(line, ms[1])>>

\* The location of the definition of a service of the index.
DefinitionOf(service) ==
    Location(FILE_SCHEME \o service.sourceFile, ParseInt(service.sourceLine) - 1)

\* C39: a definition request with the cursor on the service name of a
\* parent line, or on an '@name' argument reference, of a service that is in
\* the index returns the location of the definition of that service: its
\* sourceFile at line sourceLine minus one.
C39_ServiceReferencesResolve ==
    pc = "defined" =>
        \A name \in Range(ParentUnderCursor(input.line, input.character)
                          \o ArgumentUnderCursor(input.line, input.character)) :
            getService(cache, scannedFiles, now, name) # <<>> =>
                output = DefinitionOf(getService(cache, scannedFiles, now, name)[1])

====
